---------------------------- MODULE Spec2Model ----------------------------
(***************************************************************************)
(* A model of asmjit's JitAllocator (src/asmjit/core/jitallocator.cpp):    *)
(* the bit-vector range iterator, the block and pool bookkeeping, and the  *)
(* alloc / release / shrink / query / reset / statistics operations.       *)
(*                                                                         *)
(* Sizes are scaled down so that the state space is finite and small: a    *)
(* bit word has kBitWordSize bits, size_t and uint32_t have the width of   *)
(* SIZE_MAX, the page granularity and the block-size limits are a few      *)
(* hundred bytes.  The ordering of the limits of the source is kept        *)
(* (minimum block size = page granularity < kJitAllocatorMaxBlockSize <    *)
(* largest accepted CreateParams::blockSize < UINT32_MAX / 2 < SIZE_MAX),  *)
(* and every block size stays a multiple of kBitWordSize areas of the      *)
(* coarsest pool, as in the source.                                        *)
(***************************************************************************)
EXTENDS Integers, Sequences, FiniteSets, TLC

\* ------------------------------------------------------------------------
\* Program constants (scaled)
\* ------------------------------------------------------------------------

\* static constexpr uint32_t kJitAllocatorMultiPoolCount = 3
kJitAllocatorMultiPoolCount == 3

\* static constexpr uint32_t kJitAllocatorBaseGranularity = 64
kJitAllocatorBaseGranularity == 64

\* kJitAllocatorMaxBlockSize (32MB in the source, scaled)
kJitAllocatorMaxBlockSize == 512

\* Support::bitSizeOf<BitWord>() (32 or 64 in the source, scaled)
kBitWordSize == 2

\* std::numeric_limits<size_t>::max() (scaled: size_t has 13 bits)
SIZE_MAX == 8191

\* std::numeric_limits<uint32_t>::max() (scaled: a build where uint32_t and
\* size_t have the same width)
UINT32_MAX == 8191

\* The width of uint8_t (JitAllocatorPool::emptyBlockCount)
UINT8_MAX == 255

\* vmInfo.pageGranularity of VirtMem::info() (64kB in the source, scaled)
kPageGranularity == 256

\* The lower and upper limit of CreateParams::blockSize (64kB and 256MB in
\* the source, scaled)
kMinParamBlockSize == 256
kMaxParamBlockSize == 2048

\* The padding added to a request by calculateIdealBlockSize (64u)
kPaddingBytes == 64

\* ------------------------------------------------------------------------
\* Bounds of the model
\* ------------------------------------------------------------------------

\* The number of address ranges the virtual memory service can hand out at
\* the same time; a request beyond it fails as an out of memory condition.
NumSlots == 2

\* The number of allocations the client keeps live at the same time.
MaxLive == 2

\* The number of client threads of the concurrent specifications.
NumThreads == 2

\* The number of calls of reset the threads make in a run.
MaxResets == 1

\* The number of bit words of the bit arrays a BitVectorRangeIterator is run
\* over on its own.
MaxWords == 3

\* The number of calls of nextRange made on one iterator: a bit array of
\* MaxWords words holds at most MaxWords runs, and the calls go on after the
\* first false.
MaxCalls == MaxWords + 3

\* ------------------------------------------------------------------------
\* Error codes and option names
\* ------------------------------------------------------------------------

kErrorOk == "Ok"
kErrorOutOfMemory == "OutOfMemory"
kErrorInvalidArgument == "InvalidArgument"
kErrorInvalidState == "InvalidState"
kErrorNotInitialized == "NotInitialized"
kErrorTooLarge == "TooLarge"

kUseDualMapping == "UseDualMapping"
kUseMultiplePools == "UseMultiplePools"
kFillUnusedMemory == "FillUnusedMemory"
kImmediateRelease == "ImmediateRelease"
kDisableInitialPadding == "DisableInitialPadding"

kFlagInitialPadding == "InitialPadding"
kFlagEmpty == "Empty"
kFlagDirty == "Dirty"
kFlagDualMapped == "DualMapped"

\* ------------------------------------------------------------------------
\* Arithmetic of the source's integer types
\* ------------------------------------------------------------------------

Min(a, b) == IF a < b THEN a ELSE b
Max(a, b) == IF a > b THEN a ELSE b

\* size_t arithmetic wraps modulo SIZE_MAX + 1
SizeAdd(a, b) == (a + b) % (SIZE_MAX + 1)
SizeSub(a, b) == (a - b) % (SIZE_MAX + 1)

\* uint32_t arithmetic wraps modulo UINT32_MAX + 1
U32Add(a, b) == (a + b) % (UINT32_MAX + 1)
U32Sub(a, b) == (a - b) % (UINT32_MAX + 1)

\* uint8_t arithmetic wraps modulo 256
U8Add(a, b) == (a + b) % (UINT8_MAX + 1)
U8Sub(a, b) == (a - b) % (UINT8_MAX + 1)

\* Support::alignUp(x, alignment) on size_t, alignment a power of two:
\* (x + (alignment - 1)) & ~(alignment - 1), the sum wrapping
AlignUp(x, alignment) ==
  LET s == SizeAdd(x, alignment - 1) IN s - (s % alignment)

\* Support::alignDown(x, alignment)
AlignDown(x, alignment) == x - (x % alignment)

\* Support::isPowerOf2(x)
IsPowerOf2(x) ==
  x \in {1, 2, 4, 8, 16, 32, 64, 128, 256, 512, 1024, 2048, 4096, 8192}

\* ------------------------------------------------------------------------
\* Bit words and bit vectors.  A bit vector is the set of the indexes of
\* its 1 bits; a bit word is the set of the positions (0..kBitWordSize-1)
\* of its 1 bits.
\* ------------------------------------------------------------------------

\* Support::allOnes<T>()
AllOnes == 0 .. (kBitWordSize - 1)

\* The bit word number k of a bit vector
BitWordAt(bits, k) == {i \in AllOnes : k * kBitWordSize + i \in bits}

\* Support::allOnes<T>() << i
ShlAllOnes(i) == {b \in AllOnes : b >= i}

\* ~w and a ^ b on bit words
BitNot(w) == AllOnes \ w
BitXor(a, b) == (a \ b) \cup (b \ a)

\* Support::ctz(w), w != 0
Ctz(w) == CHOOSE i \in w : \A j \in w : i <= j

\* Support::bitVectorGetBit(buf, index)
BitVectorGetBit(bits, index) == index \in bits

\* Support::bitVectorSetBit(buf, index, value)
BitVectorSetBit(bits, index, value) ==
  IF value THEN bits \cup {index} ELSE bits \ {index}

\* Support::bitVectorFill(buf, index, count)
BitVectorFill(bits, index, count) == bits \cup (index .. (index + count - 1))

\* Support::bitVectorClear(buf, index, count)
BitVectorClear(bits, index, count) == bits \ (index .. (index + count - 1))


\* Support::bitVectorIndexOf(buf, start, true): the index of the first 1 bit
\* at or after start.  The source scans word by word without a limit, so
\* when no such bit exists it reads past the end of the vector: the result
\* is then -1 here and the caller decides what the out-of-bounds read gives.
BitVectorIndexOf(bits, start) ==
  IF \E i \in bits : i >= start
  THEN CHOOSE i \in bits : i >= start /\ \A j \in bits : j >= start => i <= j
  ELSE -1

\* ------------------------------------------------------------------------
\* BitVectorRangeIterator<T, B>: the iterator is the record of its fields
\* _idx, _end, _bitWord (the word pointer _ptr always is data + _idx /
\* kBitWordSize) and of its template parameter B.
\* ------------------------------------------------------------------------

\* kXorMask = B == 0 ? Support::allOnes<T>() : T(0)
kXorMask(B) == IF B = 0 THEN AllOnes ELSE {}

\* init(data, numBitWords, start, end)
BitVectorRangeIterator_init(bits, B, start, end) ==
  LET idx == AlignDown(start, kBitWordSize)
      bitWord == IF idx < end
                 THEN BitXor(BitWordAt(bits, idx \div kBitWordSize), kXorMask(B))
                        \cap ShlAllOnes(start % kBitWordSize)
                 ELSE {}
  IN [idx |-> idx, end |-> end, bitWord |-> bitWord, B |-> B]

\* nextRange: "Skip all empty BitWords"
RECURSIVE SkipEmptyBitWords(_, _)
SkipEmptyBitWords(bits, it) ==
  IF it.bitWord # {} THEN [ok |-> TRUE, it |-> it]
  ELSE LET idx == it.idx + kBitWordSize IN
       IF idx >= it.end
       THEN [ok |-> FALSE, it |-> [it EXCEPT !.idx = idx]]
       ELSE SkipEmptyBitWords(bits,
              [it EXCEPT !.idx = idx,
                         !.bitWord = BitXor(BitWordAt(bits, idx \div kBitWordSize),
                                            kXorMask(it.B))])

\* nextRange: the loop that extends a range over the following bit words
\* while it is shorter than rangeHint
RECURSIVE ExtendRange(_, _, _, _, _)
ExtendRange(bits, it, rangeStart, rangeEnd, rangeHint) ==
  IF ~(SizeSub(rangeEnd, rangeStart) < rangeHint)
  THEN [it |-> it, rangeEnd |-> rangeEnd]
  ELSE LET idx == it.idx + kBitWordSize IN
       IF idx >= it.end
       THEN [it |-> [it EXCEPT !.idx = idx], rangeEnd |-> rangeEnd]
       ELSE LET w == BitXor(BitWordAt(bits, idx \div kBitWordSize), kXorMask(it.B)) IN
            IF w # AllOnes
            THEN LET j == Ctz(BitNot(w)) IN
                 [it |-> [it EXCEPT !.idx = idx,
                                    !.bitWord = BitXor(w, BitNot(ShlAllOnes(j)))],
                  rangeEnd |-> Min(idx + j, it.end)]
            ELSE ExtendRange(bits, [it EXCEPT !.idx = idx, !.bitWord = {}],
                             rangeStart, Min(idx + kBitWordSize, it.end), rangeHint)

\* nextRange(&rangeStart, &rangeEnd, rangeHint): ok is the returned bool;
\* when it is false rangeStart and rangeEnd are not written
BitVectorRangeIterator_nextRange(bits, it0, rangeHint) ==
  LET sk == SkipEmptyBitWords(bits, it0) IN
  IF ~sk.ok THEN [ok |-> FALSE, it |-> sk.it, rangeStart |-> 0, rangeEnd |-> 0]
  ELSE LET it == sk.it
           i == Ctz(it.bitWord)
           rangeStart == it.idx + i
           bw == BitNot(BitXor(it.bitWord, BitNot(ShlAllOnes(i))))
       IN IF bw = {}
          THEN LET x == ExtendRange(bits, [it EXCEPT !.bitWord = bw], rangeStart,
                                    Min(it.idx + kBitWordSize, it.end), rangeHint)
               IN [ok |-> TRUE, it |-> x.it, rangeStart |-> rangeStart,
                   rangeEnd |-> x.rangeEnd]
          ELSE LET j == Ctz(bw) IN
               [ok |-> TRUE,
                it |-> [it EXCEPT !.bitWord = BitNot(BitXor(bw, BitNot(ShlAllOnes(j))))],
                rangeStart |-> rangeStart,
                rangeEnd |-> Min(it.idx + j, it.end)]

\* ------------------------------------------------------------------------
\* State
\* ------------------------------------------------------------------------

VARIABLES
  initialized,      \* FALSE: _impl is JitAllocatorImpl_none (the sentinel)
  params,           \* impl->options, impl->blockSize, impl->granularity
  pools,            \* impl->pools: pool id -> JitAllocatorPool
  blocks,           \* the JitAllocatorBlock objects that exist, by address slot
  tree,             \* impl->tree: the set of the blocks in the RBTree
  allocationCount,  \* impl->allocationCount
  crashed,          \* the process ran into undefined behaviour and died
  live,             \* the client's records of its allocations (JitAllocatorWrapper::_records)
  last,             \* the last call and what it returned
  lock,             \* impl->lock: 0 or the thread that holds it
  threads,          \* per client thread: its call and its position in it
  serial,           \* the allocator of the sequential execution of the calls
                    \* in the order they acquired the mutex
  resets,           \* the number of calls of reset made
  iteration         \* a BitVectorRangeIterator at work: its input, its fields
                    \* and the ranges it has yielded

vars == <<initialized, params, pools, blocks, tree, allocationCount, crashed,
          live, last, lock, threads, serial, resets, iteration>>

\* The mutable state of JitAllocatorPrivateImpl as one value
Impl == [pools |-> pools, blocks |-> blocks, tree |-> tree,
         allocationCount |-> allocationCount]

\* ------------------------------------------------------------------------
\* Addresses.  The virtual memory service hands out NumSlots disjoint
\* address ranges; a block is identified by the slot of its mapping.
\* ------------------------------------------------------------------------

Slots == 1 .. NumSlots

\* The size of a slot: no block of the model is larger
SlotBytes == 4 * kJitAllocatorMaxBlockSize

\* VirtMem::DualMapping::rx and ::rw of the mapping in a slot
RxBase(slot) == slot * SlotBytes
RwBase(slot, dual) == IF dual THEN RxBase(slot) + (NumSlots + 1) * SlotBytes
                      ELSE RxBase(slot)

\* ------------------------------------------------------------------------
\* JitAllocatorPool
\* ------------------------------------------------------------------------

\* JitAllocatorPool(granularity)
JitAllocatorPool(granularity) ==
  [blocks |-> <<>>, cursor |-> 0, blockCount |-> 0, granularity |-> granularity,
   emptyBlockCount |-> 0, totalAreaSize |-> 0, totalAreaUsed |-> 0,
   totalOverheadBytes |-> 0]

\* JitAllocatorPool::reset()
JitAllocatorPool_reset(pool) ==
  [pool EXCEPT !.blocks = <<>>, !.cursor = 0, !.blockCount = 0,
               !.totalAreaSize = 0, !.totalAreaUsed = 0, !.totalOverheadBytes = 0]

\* JitAllocatorPool::byteSizeFromAreaSize(areaSize)
byteSizeFromAreaSize(pool, areaSize) == areaSize * pool.granularity

\* JitAllocatorPool::areaSizeFromByteSize(size):
\* uint32_t((size + granularity - 1) >> granularityLog2), the sum wrapping
areaSizeFromByteSize(pool, size) ==
  (SizeAdd(size, pool.granularity - 1) \div pool.granularity) % (UINT32_MAX + 1)

\* sizeof(Support::BitWord) and sizeof(JitAllocatorBlock), in bytes
kSizeofBitWord == 1
kSizeofJitAllocatorBlock == 112

\* JitAllocatorImpl_bitVectorSizeToByteSize(areaSize)
JitAllocatorImpl_bitVectorSizeToByteSize(areaSize) ==
  ((areaSize + kBitWordSize - 1) \div kBitWordSize) * kSizeofBitWord

\* ------------------------------------------------------------------------
\* JitAllocatorBlock
\* ------------------------------------------------------------------------

hasFlag(block, f) == f \in block.flags

\* JitAllocatorBlock::initialAreaStartByFlags(flags): flags & kFlagInitialPadding
initialAreaStart(block) == IF hasFlag(block, kFlagInitialPadding) THEN 1 ELSE 0

\* JitAllocatorBlock::areaAvailable(): _areaSize - _areaUsed
areaAvailable(block) == U32Sub(block.areaSize, block.areaUsed)

\* JitAllocatorBlock::rxPtr() and rwPtr() of the block in a slot
rxPtr(slot) == RxBase(slot)
rwPtr(block, slot) == RwBase(slot, hasFlag(block, kFlagDualMapped))

\* clearBlock without the bits of the padding area
clearBlock_NoPaddingBits(block) ==
  LET start == initialAreaStart(block)
  IN [block EXCEPT !.used = {},
                   !.stop = {},
                   !.areaUsed = start,
                   !.largestUnusedArea = U32Sub(block.areaSize, start),
                   !.searchStart = start,
                   !.searchEnd = block.areaSize,
                   !.flags = (block.flags \cup {kFlagEmpty}) \ {kFlagDirty}]

\* JitAllocatorBlock::clearBlock()
clearBlock(block) ==
  LET bit == hasFlag(block, kFlagInitialPadding)
      start == initialAreaStart(block)
  IN [block EXCEPT !.used = BitVectorSetBit({}, 0, bit),
                   !.stop = BitVectorSetBit({}, 0, bit),
                   !.areaUsed = start,
                   !.largestUnusedArea = U32Sub(block.areaSize, start),
                   !.searchStart = start,
                   !.searchEnd = block.areaSize,
                   !.flags = (block.flags \cup {kFlagEmpty}) \ {kFlagDirty}]

\* JitAllocatorBlock::JitAllocatorBlock(pool, mapping, blockSize, blockFlags,
\* usedBitVector, stopBitVector, areaSize)
JitAllocatorBlock(poolId, blockSize, blockFlags, areaSize) ==
  clearBlock([pool |-> poolId, blockSize |-> blockSize, flags |-> blockFlags,
              areaSize |-> areaSize, areaUsed |-> 0, largestUnusedArea |-> 0,
              searchStart |-> 0, searchEnd |-> 0, used |-> {}, stop |-> {},
              filled |-> {}])

\* The part of markAllocatedArea that follows the update of the bit vectors
\* and counters: the search region and the flags
markAllocatedHints(block, allocatedAreaStart, allocatedAreaEnd) ==
  IF areaAvailable(block) = 0
  THEN [block EXCEPT !.searchStart = block.areaSize, !.searchEnd = 0,
                     !.largestUnusedArea = 0,
                     !.flags = block.flags \ {kFlagDirty, kFlagEmpty}]
  ELSE [block EXCEPT
          !.searchStart = IF block.searchStart = allocatedAreaStart
                          THEN allocatedAreaEnd ELSE block.searchStart,
          !.searchEnd = IF block.searchEnd = allocatedAreaEnd
                        THEN allocatedAreaStart ELSE block.searchEnd,
          !.flags = (block.flags \cup {kFlagDirty}) \ {kFlagEmpty}]

\* markAllocatedArea without the bitVectorFill of the used bits
markAllocatedArea_NoFill(st, b, allocatedAreaStart, allocatedAreaEnd) ==
  LET block == st.blocks[b]
      allocatedAreaSize == U32Sub(allocatedAreaEnd, allocatedAreaStart)
      marked == [block EXCEPT
                   !.stop = BitVectorSetBit(block.stop, allocatedAreaEnd - 1, TRUE),
                   !.areaUsed = U32Add(block.areaUsed, allocatedAreaSize)]
  IN [st EXCEPT
        !.pools[block.pool].totalAreaUsed = SizeAdd(@, allocatedAreaSize),
        !.blocks[b] = markAllocatedHints(marked, allocatedAreaStart, allocatedAreaEnd)]

\* markAllocatedArea without "_areaUsed += allocatedAreaSize"
markAllocatedArea_NoAreaUsed(st, b, allocatedAreaStart, allocatedAreaEnd) ==
  LET block == st.blocks[b]
      allocatedAreaSize == U32Sub(allocatedAreaEnd, allocatedAreaStart)
      marked == [block EXCEPT
                   !.used = BitVectorFill(block.used, allocatedAreaStart, allocatedAreaSize),
                   !.stop = BitVectorSetBit(block.stop, allocatedAreaEnd - 1, TRUE)]
  IN [st EXCEPT
        !.pools[block.pool].totalAreaUsed = SizeAdd(@, allocatedAreaSize),
        !.blocks[b] = markAllocatedHints(marked, allocatedAreaStart, allocatedAreaEnd)]

\* JitAllocatorBlock::markAllocatedArea(allocatedAreaStart, allocatedAreaEnd)
\* on the block in slot b of state st (it also updates the block's pool)
markAllocatedArea(st, b, allocatedAreaStart, allocatedAreaEnd) ==
  LET block == st.blocks[b]
      allocatedAreaSize == U32Sub(allocatedAreaEnd, allocatedAreaStart)
      marked == [block EXCEPT
                   !.used = BitVectorFill(block.used, allocatedAreaStart, allocatedAreaSize),
                   !.stop = BitVectorSetBit(block.stop, allocatedAreaEnd - 1, TRUE),
                   !.areaUsed = U32Add(block.areaUsed, allocatedAreaSize)]
  IN [st EXCEPT
        !.pools[block.pool].totalAreaUsed = SizeAdd(@, allocatedAreaSize),
        !.blocks[b] = markAllocatedHints(marked, allocatedAreaStart, allocatedAreaEnd)]

\* markReleasedArea without the flags of a block that became empty
markReleasedArea_NoEmptyFlag(st, b, releasedAreaStart, releasedAreaEnd) ==
  LET block == st.blocks[b]
      releasedAreaSize == U32Sub(releasedAreaEnd, releasedAreaStart)
      marked == [block EXCEPT
                   !.areaUsed = U32Sub(block.areaUsed, releasedAreaSize),
                   !.searchStart = Min(block.searchStart, releasedAreaStart),
                   !.searchEnd = Max(block.searchEnd, releasedAreaEnd),
                   !.used = BitVectorClear(block.used, releasedAreaStart, releasedAreaSize),
                   !.stop = BitVectorSetBit(block.stop, releasedAreaEnd - 1, FALSE)]
  IN [st EXCEPT
        !.pools[block.pool].totalAreaUsed = SizeSub(@, releasedAreaSize),
        !.blocks[b] = [marked EXCEPT !.flags = marked.flags \cup {kFlagDirty}]]

\* markReleasedArea without the clearing of the stop bit of the area
markReleasedArea_KeepsStopBit(st, b, releasedAreaStart, releasedAreaEnd) ==
  LET block == st.blocks[b]
      releasedAreaSize == U32Sub(releasedAreaEnd, releasedAreaStart)
      marked == [block EXCEPT
                   !.areaUsed = U32Sub(block.areaUsed, releasedAreaSize),
                   !.searchStart = Min(block.searchStart, releasedAreaStart),
                   !.searchEnd = Max(block.searchEnd, releasedAreaEnd),
                   !.used = BitVectorClear(block.used, releasedAreaStart, releasedAreaSize)]
      done == IF marked.areaUsed = initialAreaStart(marked)
              THEN [marked EXCEPT
                      !.searchStart = initialAreaStart(marked),
                      !.searchEnd = marked.areaSize,
                      !.largestUnusedArea = U32Sub(marked.areaSize, initialAreaStart(marked)),
                      !.flags = (marked.flags \cup {kFlagEmpty}) \ {kFlagDirty}]
              ELSE [marked EXCEPT !.flags = marked.flags \cup {kFlagDirty}]
  IN [st EXCEPT
        !.pools[block.pool].totalAreaUsed = SizeSub(@, releasedAreaSize),
        !.blocks[b] = done]

\* JitAllocatorBlock::markReleasedArea(releasedAreaStart, releasedAreaEnd)
markReleasedArea(st, b, releasedAreaStart, releasedAreaEnd) ==
  LET block == st.blocks[b]
      releasedAreaSize == U32Sub(releasedAreaEnd, releasedAreaStart)
      marked == [block EXCEPT
                   !.areaUsed = U32Sub(block.areaUsed, releasedAreaSize),
                   !.searchStart = Min(block.searchStart, releasedAreaStart),
                   !.searchEnd = Max(block.searchEnd, releasedAreaEnd),
                   !.used = BitVectorClear(block.used, releasedAreaStart, releasedAreaSize),
                   !.stop = BitVectorSetBit(block.stop, releasedAreaEnd - 1, FALSE)]
      done == IF marked.areaUsed = initialAreaStart(marked)
              THEN [marked EXCEPT
                      !.searchStart = initialAreaStart(marked),
                      !.searchEnd = marked.areaSize,
                      !.largestUnusedArea = U32Sub(marked.areaSize, initialAreaStart(marked)),
                      !.flags = (marked.flags \cup {kFlagEmpty}) \ {kFlagDirty}]
              ELSE [marked EXCEPT !.flags = marked.flags \cup {kFlagDirty}]
  IN [st EXCEPT
        !.pools[block.pool].totalAreaUsed = SizeSub(@, releasedAreaSize),
        !.blocks[b] = done]

\* markShrunkArea without the bitVectorClear of the used bits
markShrunkArea_KeepsUsedBits(st, b, shrunkAreaStart, shrunkAreaEnd) ==
  LET block == st.blocks[b]
      shrunkAreaSize == U32Sub(shrunkAreaEnd, shrunkAreaStart)
      marked == [block EXCEPT
                   !.areaUsed = U32Sub(block.areaUsed, shrunkAreaSize),
                   !.searchStart = Min(block.searchStart, shrunkAreaStart),
                   !.searchEnd = Max(block.searchEnd, shrunkAreaEnd),
                   !.stop = BitVectorSetBit(
                              BitVectorSetBit(block.stop, shrunkAreaEnd - 1, FALSE),
                              shrunkAreaStart - 1, TRUE),
                   !.flags = block.flags \cup {kFlagDirty}]
  IN [st EXCEPT
        !.pools[block.pool].totalAreaUsed = SizeSub(@, shrunkAreaSize),
        !.blocks[b] = marked]

\* markShrunkArea without the new stop bit at the end of what is kept
markShrunkArea_NoNewStopBit(st, b, shrunkAreaStart, shrunkAreaEnd) ==
  LET block == st.blocks[b]
      shrunkAreaSize == U32Sub(shrunkAreaEnd, shrunkAreaStart)
      marked == [block EXCEPT
                   !.areaUsed = U32Sub(block.areaUsed, shrunkAreaSize),
                   !.searchStart = Min(block.searchStart, shrunkAreaStart),
                   !.searchEnd = Max(block.searchEnd, shrunkAreaEnd),
                   !.used = BitVectorClear(block.used, shrunkAreaStart, shrunkAreaSize),
                   !.stop = BitVectorSetBit(block.stop, shrunkAreaEnd - 1, FALSE),
                   !.flags = block.flags \cup {kFlagDirty}]
  IN [st EXCEPT
        !.pools[block.pool].totalAreaUsed = SizeSub(@, shrunkAreaSize),
        !.blocks[b] = marked]

\* JitAllocatorBlock::markShrunkArea(shrunkAreaStart, shrunkAreaEnd)
\* A markShrunkArea that leaves the pool's totalAreaUsed as it is
markShrunkArea_NoPoolTotal(st, b, shrunkAreaStart, shrunkAreaEnd) ==
  LET block == st.blocks[b]
      shrunkAreaSize == U32Sub(shrunkAreaEnd, shrunkAreaStart)
      marked == [block EXCEPT
                   !.areaUsed = U32Sub(block.areaUsed, shrunkAreaSize),
                   !.searchStart = Min(block.searchStart, shrunkAreaStart),
                   !.searchEnd = Max(block.searchEnd, shrunkAreaEnd),
                   !.used = BitVectorClear(block.used, shrunkAreaStart, shrunkAreaSize),
                   !.stop = BitVectorSetBit(
                              BitVectorSetBit(block.stop, shrunkAreaEnd - 1, FALSE),
                              shrunkAreaStart - 1, TRUE),
                   !.flags = block.flags \cup {kFlagDirty}]
  IN [st EXCEPT !.blocks[b] = marked]

markShrunkArea(st, b, shrunkAreaStart, shrunkAreaEnd) ==
  LET block == st.blocks[b]
      shrunkAreaSize == U32Sub(shrunkAreaEnd, shrunkAreaStart)
      marked == [block EXCEPT
                   !.areaUsed = U32Sub(block.areaUsed, shrunkAreaSize),
                   !.searchStart = Min(block.searchStart, shrunkAreaStart),
                   !.searchEnd = Max(block.searchEnd, shrunkAreaEnd),
                   !.used = BitVectorClear(block.used, shrunkAreaStart, shrunkAreaSize),
                   !.stop = BitVectorSetBit(
                              BitVectorSetBit(block.stop, shrunkAreaEnd - 1, FALSE),
                              shrunkAreaStart - 1, TRUE),
                   !.flags = block.flags \cup {kFlagDirty}]
  IN [st EXCEPT
        !.pools[block.pool].totalAreaUsed = SizeSub(@, shrunkAreaSize),
        !.blocks[b] = marked]

\* ------------------------------------------------------------------------
\* JitAllocatorImpl utilities
\* ------------------------------------------------------------------------

hasOption(p, o) == o \in p.options

\* A fillPattern that stops one area short of the end of the span
fillPattern_SkipsTheLast(p, block, areaStart, areaEnd) ==
  IF hasOption(p, kFillUnusedMemory)
  THEN [block EXCEPT !.filled = @ \cup (areaStart .. (areaEnd - 2))]
  ELSE block

\* JitAllocatorImpl_fillPattern(block->rwPtr() + areaStart * granularity,
\* impl->fillPattern, (areaEnd - areaStart) * granularity) when the option
\* FillUnusedMemory is set: block.filled is the set of the areas whose
\* memory holds the fill pattern and nothing else
fillPattern(p, block, areaStart, areaEnd) ==
  IF hasOption(p, kFillUnusedMemory)
  THEN [block EXCEPT !.filled = @ \cup (areaStart .. (areaEnd - 1))]
  ELSE block

\* JitAllocatorImpl_new: poolCount
poolCountOf(p) == IF hasOption(p, kUseMultiplePools) THEN kJitAllocatorMultiPoolCount ELSE 1

\* JitAllocatorImpl_new(params): the impl's options, blockSize and
\* granularity for the given CreateParams (hardened runtime not enabled)
JitAllocatorImpl_new(createParams) ==
  LET blockSize == IF \/ createParams.blockSize < kMinParamBlockSize
                      \/ createParams.blockSize > kMaxParamBlockSize
                      \/ ~IsPowerOf2(createParams.blockSize)
                   THEN kPageGranularity ELSE createParams.blockSize
      granularity == IF \/ createParams.granularity < 64
                        \/ createParams.granularity > 256
                        \/ ~IsPowerOf2(createParams.granularity)
                     THEN kJitAllocatorBaseGranularity ELSE createParams.granularity
  IN [options |-> createParams.options, blockSize |-> blockSize,
      granularity |-> granularity]

\* JitAllocatorImpl_new: the pools, new(&pools[poolId]) JitAllocatorPool(granularity << poolId)
NewPools(p) ==
  [poolId \in 0 .. (poolCountOf(p) - 1) |->
     JitAllocatorPool(p.granularity * (2 ^ poolId))]

\* The loop without "granularity >>= 1"
RECURSIVE sizeToPoolIdLoop_NoShift(_, _, _)
sizeToPoolIdLoop_NoShift(size, poolId, granularity) ==
  IF poolId = 0 THEN 0
  ELSE IF AlignUp(size, granularity) = size THEN poolId
  ELSE sizeToPoolIdLoop_NoShift(size, poolId - 1, granularity)

\* JitAllocatorImpl_sizeToPoolId: the loop
RECURSIVE sizeToPoolIdLoop(_, _, _)
sizeToPoolIdLoop(size, poolId, granularity) ==
  IF poolId = 0 THEN 0
  ELSE IF AlignUp(size, granularity) = size THEN poolId
  ELSE sizeToPoolIdLoop(size, poolId - 1, granularity \div 2)

\* JitAllocatorImpl_sizeToPoolId(impl, size)
JitAllocatorImpl_sizeToPoolId(p, size) ==
  sizeToPoolIdLoop(size, poolCountOf(p) - 1,
                   p.granularity * (2 ^ (poolCountOf(p) - 1)))

\* JitAllocatorImpl_calculateIdealBlockSize(impl, pool, allocationSize);
\* 0 stands for "overflown"
\* A calculateIdealBlockSize that does not add the padding to the request
JitAllocatorImpl_calculateIdealBlockSize_NoPadding(st, p, poolId, allocationSize0) ==
  LET pool == st.pools[poolId]
      hasLast == Len(pool.blocks) > 0
      blockSize0 == IF hasLast THEN st.blocks[pool.blocks[Len(pool.blocks)]].blockSize
                    ELSE p.blockSize
      blockSize1 == IF blockSize0 < kJitAllocatorMaxBlockSize
                    THEN SizeAdd(blockSize0, blockSize0) ELSE blockSize0
      aligned == AlignUp(allocationSize0, p.blockSize)
  IN IF allocationSize0 > blockSize1
     THEN (IF aligned < allocationSize0 THEN 0 ELSE aligned)
     ELSE blockSize1

JitAllocatorImpl_calculateIdealBlockSize(st, p, poolId, allocationSize0) ==
  LET pool == st.pools[poolId]
      hasLast == Len(pool.blocks) > 0
      blockSize0 == IF hasLast THEN st.blocks[pool.blocks[Len(pool.blocks)]].blockSize
                    ELSE p.blockSize
      padding == ~hasOption(p, kDisableInitialPadding)
      allocationSize == IF padding THEN SizeAdd(allocationSize0, kPaddingBytes)
                        ELSE allocationSize0
      blockSize1 == IF blockSize0 < kJitAllocatorMaxBlockSize
                    THEN SizeAdd(blockSize0, blockSize0) ELSE blockSize0
      aligned == AlignUp(allocationSize, p.blockSize)
  IN IF padding /\ SIZE_MAX - allocationSize0 < kPaddingBytes THEN 0
     ELSE IF allocationSize > blockSize1
          THEN (IF aligned < allocationSize THEN 0 ELSE aligned)
          ELSE blockSize1

\* JitAllocatorImpl_newBlock(impl, &block, pool, blockSize): the block that
\* is constructed when the host heap and the virtual memory service deliver
JitAllocatorImpl_newBlock(st, p, poolId, blockSize) ==
  LET pool == st.pools[poolId]
      areaSize == (SizeAdd(blockSize, pool.granularity - 1) \div pool.granularity)
                    % (UINT32_MAX + 1)
      blockFlags == (IF hasOption(p, kDisableInitialPadding) THEN {}
                     ELSE {kFlagInitialPadding})
                    \cup (IF hasOption(p, kUseDualMapping) THEN {kFlagDualMapped}
                          ELSE {})
  IN fillPattern(p, JitAllocatorBlock(poolId, blockSize, blockFlags, areaSize),
                 0, areaSize)

\* The bytes a block adds to its pool's totalOverheadBytes
BlockOverhead(block) ==
  kSizeofJitAllocatorBlock + JitAllocatorImpl_bitVectorSizeToByteSize(block.areaSize) * 2

\* insertBlock that does not add the block's used areas to the pool's total
JitAllocatorImpl_insertBlock_NoAreaUsed(st, b) ==
  LET block == st.blocks[b]
      pool == st.pools[block.pool]
  IN [st EXCEPT
        !.tree = @ \cup {b},
        !.pools[block.pool] =
           [pool EXCEPT
              !.cursor = IF pool.cursor = 0 THEN b ELSE pool.cursor,
              !.blocks = Append(pool.blocks, b),
              !.blockCount = U32Add(pool.blockCount, 1),
              !.totalAreaSize = SizeAdd(pool.totalAreaSize, block.areaSize),
              !.totalOverheadBytes = SizeAdd(pool.totalOverheadBytes, BlockOverhead(block))]]

\* JitAllocatorImpl_insertBlock(impl, block): block is the object in slot b
JitAllocatorImpl_insertBlock(st, b) ==
  LET block == st.blocks[b]
      pool == st.pools[block.pool]
  IN [st EXCEPT
        !.tree = @ \cup {b},
        !.pools[block.pool] =
           [pool EXCEPT
              !.cursor = IF pool.cursor = 0 THEN b ELSE pool.cursor,
              !.blocks = Append(pool.blocks, b),
              !.blockCount = U32Add(pool.blockCount, 1),
              !.totalAreaSize = SizeAdd(pool.totalAreaSize, block.areaSize),
              !.totalAreaUsed = SizeAdd(pool.totalAreaUsed, block.areaUsed),
              !.totalOverheadBytes = SizeAdd(pool.totalOverheadBytes, BlockOverhead(block))]]

\* The position of block b in a list of blocks (0: not in the list)
IndexIn(list, b) ==
  IF \E i \in 1 .. Len(list) : list[i] = b
  THEN CHOOSE i \in 1 .. Len(list) : list[i] = b
  ELSE 0

\* ZoneList::unlink(node)
Unlink(list, b) ==
  LET i == IndexIn(list, b) IN
  IF i = 0 THEN list
  ELSE SubSeq(list, 1, i - 1) \o SubSeq(list, i + 1, Len(list))

\* JitAllocatorImpl_removeBlock(impl, block)
\* A removeBlock that leaves the cursor of the pool where it is
JitAllocatorImpl_removeBlock_KeepsCursor(st, b) ==
  LET block == st.blocks[b]
      pool == st.pools[block.pool]
  IN [st EXCEPT
        !.tree = @ \ {b},
        !.pools[block.pool] =
           [pool EXCEPT
              !.blocks = Unlink(pool.blocks, b),
              !.blockCount = U32Sub(pool.blockCount, 1),
              !.totalAreaSize = SizeSub(pool.totalAreaSize, block.areaSize),
              !.totalAreaUsed = SizeSub(pool.totalAreaUsed, block.areaUsed),
              !.totalOverheadBytes = SizeSub(pool.totalOverheadBytes, BlockOverhead(block))]]

JitAllocatorImpl_removeBlock(st, b) ==
  LET block == st.blocks[b]
      pool == st.pools[block.pool]
      i == IndexIn(pool.blocks, b)
      neighbour == IF i > 1 THEN pool.blocks[i - 1]
                   ELSE IF i < Len(pool.blocks) THEN pool.blocks[i + 1]
                   ELSE 0
  IN [st EXCEPT
        !.tree = @ \ {b},
        !.pools[block.pool] =
           [pool EXCEPT
              !.cursor = IF pool.cursor = b THEN neighbour ELSE pool.cursor,
              !.blocks = Unlink(pool.blocks, b),
              !.blockCount = U32Sub(pool.blockCount, 1),
              !.totalAreaSize = SizeSub(pool.totalAreaSize, block.areaSize),
              !.totalAreaUsed = SizeSub(pool.totalAreaUsed, block.areaUsed),
              !.totalOverheadBytes = SizeSub(pool.totalOverheadBytes, BlockOverhead(block))]]

\* JitAllocatorImpl_deleteBlock(impl, block): the mapping is released and
\* the object freed
JitAllocatorImpl_deleteBlock(st, b) ==
  [st EXCEPT !.blocks = [x \in (DOMAIN st.blocks) \ {b} |-> st.blocks[x]]]

\* tree.get with a block's range taken as [rx, rx + blockSize]
TreeGet_InclusiveEnd(st, key) ==
  LET hit == {b \in st.tree : rxPtr(b) <= key /\ key <= rxPtr(b) + st.blocks[b].blockSize}
  IN IF hit = {} THEN 0 ELSE CHOOSE b \in hit : TRUE

\* impl->tree.get(key): the block whose [rx, rx + blockSize) holds key, 0
\* when there is none
TreeGet(st, key) ==
  LET hit == {b \in st.tree : rxPtr(b) <= key /\ key < rxPtr(b) + st.blocks[b].blockSize}
  IN IF hit = {} THEN 0 ELSE CHOOSE b \in hit : TRUE

\* ------------------------------------------------------------------------
\* JitAllocator::alloc
\* ------------------------------------------------------------------------

\* constexpr uint32_t kNoIndex = std::numeric_limits<uint32_t>::max()
kNoIndex == UINT32_MAX

\* alloc: one turn of the while loop over the ranges of a block, r being
\* what it.nextRange returned.  searchStart, largestArea and rangeEnd are
\* the locals of the same name.
RECURSIVE ScanRanges(_, _, _, _, _, _)
ScanRange(bits, r, areaSize, searchStart, largestArea, rangeEnd) ==
  IF ~r.ok
  THEN [areaIndex |-> kNoIndex, searchStart |-> searchStart,
        largestArea |-> largestArea, rangeEnd |-> rangeEnd]
  ELSE IF SizeSub(r.rangeEnd, r.rangeStart) >= areaSize
  THEN [areaIndex |-> r.rangeStart % (UINT32_MAX + 1), searchStart |-> searchStart,
        largestArea |-> largestArea, rangeEnd |-> r.rangeEnd]
  ELSE ScanRanges(bits, r.it, areaSize, Min(searchStart, r.rangeStart),
                  Max(largestArea, SizeSub(r.rangeEnd, r.rangeStart)), r.rangeEnd)

\* alloc: the while loop over the ranges of one block
ScanRanges(bits, it, areaSize, searchStart, largestArea, rangeEnd) ==
  ScanRange(bits, BitVectorRangeIterator_nextRange(bits, it, areaSize), areaSize,
            searchStart, largestArea, rangeEnd)

\* alloc: the scan of one block that passed the two skip tests
ScanBlock(block, areaSize) ==
  ScanRanges(block.used,
             BitVectorRangeIterator_init(block.used, 0, block.searchStart, block.searchEnd),
             areaSize, SIZE_MAX, 0, block.areaSize)

\* The write-back that clears Dirty and leaves _largestUnusedArea as it is
WriteBackHints_KeepsLargest(block, sc) ==
  IF sc.searchStart # SIZE_MAX
  THEN [block EXCEPT !.searchStart = sc.searchStart % (UINT32_MAX + 1),
                     !.searchEnd = sc.rangeEnd % (UINT32_MAX + 1),
                     !.flags = block.flags \ {kFlagDirty}]
  ELSE block

\* alloc: the hints written back after a scan that found nothing
WriteBackHints(block, sc) ==
  IF sc.searchStart # SIZE_MAX
  THEN [block EXCEPT !.searchStart = sc.searchStart % (UINT32_MAX + 1),
                     !.searchEnd = sc.rangeEnd % (UINT32_MAX + 1),
                     !.largestUnusedArea = sc.largestArea % (UINT32_MAX + 1),
                     !.flags = block.flags \ {kFlagDirty}]
  ELSE block

\* The skip tests without the test of the Dirty flag
BlockIsScanned_TrustsTheHint(block, areaSize) ==
  /\ areaAvailable(block) >= areaSize
  /\ block.largestUnusedArea >= areaSize

\* alloc: the two tests that decide whether a block is scanned
BlockIsScanned(block, areaSize) ==
  /\ areaAvailable(block) >= areaSize
  /\ (hasFlag(block, kFlagDirty) \/ block.largestUnusedArea >= areaSize)

\* alloc: what follows the scan sc of the block at position i of the list:
\* the search ends with the area found, or the hints are written back and
\* the next block is tried
RECURSIVE SearchBlocks(_, _, _, _)
SearchNext(st, list, i, areaSize, sc) ==
  IF sc.areaIndex # kNoIndex
  THEN [st |-> st, block |-> list[i], areaIndex |-> sc.areaIndex]
  ELSE SearchBlocks([st EXCEPT !.blocks[list[i]] = WriteBackHints(@, sc)],
                    list, i + 1, areaSize)

\* alloc: "Try to find the requested memory area in existing blocks": the
\* do-while loop from pool->blocks.first() over the list, from position i
SearchBlocks(st, list, i, areaSize) ==
  IF i > Len(list) THEN [st |-> st, block |-> 0, areaIndex |-> kNoIndex]
  ELSE IF BlockIsScanned(st.blocks[list[i]], areaSize)
  THEN SearchNext(st, list, i, areaSize, ScanBlock(st.blocks[list[i]], areaSize))
  ELSE SearchBlocks(st, list, i + 1, areaSize)

\* alloc: the statements after a block and an area index were determined
FinishAlloc(st, pool, b, areaIndex, areaSize) ==
  LET st1 == [st EXCEPT !.allocationCount = SizeAdd(@, 1)]
      st2 == markAllocatedArea(st1, b, areaIndex, areaIndex + areaSize)
      offset == byteSizeFromAreaSize(pool, areaIndex)
  IN [st |-> st2, err |-> kErrorOk,
      rx |-> rxPtr(b) + offset, rw |-> rwPtr(st2.blocks[b], b) + offset]

\* The new block path with allocationCount incremented before the block is
\* obtained
AllocNewBlock_CountsFirst(st, p, poolId, size, areaSize, vm) ==
  LET pool == st.pools[poolId]
      blockSize == JitAllocatorImpl_calculateIdealBlockSize(st, p, poolId, size)
      block == JitAllocatorImpl_newBlock(st, p, poolId, blockSize)
      areaIndex == initialAreaStart(block)
      st1 == JitAllocatorImpl_insertBlock([st EXCEPT !.blocks = @ @@ (vm :> block)], vm)
      st2 == [st1 EXCEPT
                !.blocks[vm].searchStart = U32Add(@, areaSize),
                !.blocks[vm].largestUnusedArea = U32Sub(@, areaSize)]
  IN IF blockSize = 0 \/ vm = 0
     THEN [st |-> [st EXCEPT !.allocationCount = SizeAdd(@, 1)],
           err |-> kErrorOutOfMemory, rx |-> 0, rw |-> 0]
     ELSE FinishAlloc(st2, pool, vm, areaIndex, areaSize)

\* alloc: the new block path.  vm is the slot the virtual memory service maps
\* the block at, 0 when the host heap or the service refuses.
AllocNewBlock(st, p, poolId, size, areaSize, vm) ==
  LET pool == st.pools[poolId]
      blockSize == JitAllocatorImpl_calculateIdealBlockSize(st, p, poolId, size)
      block == JitAllocatorImpl_newBlock(st, p, poolId, blockSize)
      areaIndex == initialAreaStart(block)
      st1 == JitAllocatorImpl_insertBlock([st EXCEPT !.blocks = @ @@ (vm :> block)], vm)
      st2 == [st1 EXCEPT
                !.blocks[vm].searchStart = U32Add(@, areaSize),
                !.blocks[vm].largestUnusedArea = U32Sub(@, areaSize)]
  IN IF blockSize = 0 \/ vm = 0
     THEN [st |-> st, err |-> kErrorOutOfMemory, rx |-> 0, rw |-> 0]
     ELSE FinishAlloc(st2, pool, vm, areaIndex, areaSize)

\* alloc: what follows the search that ended with found: a new block, or
\* the area found in a block (which is not empty any more)
AllocFound(found, p, poolId, size, areaSize, vm) ==
  IF found.areaIndex = kNoIndex
  THEN AllocNewBlock(found.st, p, poolId, size, areaSize, vm)
  ELSE IF hasFlag(found.st.blocks[found.block], kFlagEmpty)
  THEN FinishAlloc(
         [found.st EXCEPT
            !.pools[poolId].emptyBlockCount = U8Sub(@, 1),
            !.blocks[found.block].flags = @ \ {kFlagEmpty}],
         found.st.pools[poolId], found.block, found.areaIndex, areaSize)
  ELSE FinishAlloc(found.st, found.st.pools[poolId], found.block, found.areaIndex, areaSize)

\* The critical section with a search that passes over the first block
AllocLocked_SkipsTheFirst(p, st, size, vm) ==
  LET poolId == JitAllocatorImpl_sizeToPoolId(p, size)
      areaSize == areaSizeFromByteSize(st.pools[poolId], size)
  IN AllocFound(SearchBlocks(st, st.pools[poolId].blocks, 2, areaSize),
                p, poolId, size, areaSize, vm)

\* alloc: the critical section (from LockGuard guard(impl->lock) on), size
\* being the aligned size
AllocLocked(p, st, size, vm) ==
  LET poolId == JitAllocatorImpl_sizeToPoolId(p, size)
      areaSize == areaSizeFromByteSize(st.pools[poolId], size)
  IN AllocFound(SearchBlocks(st, st.pools[poolId].blocks, 1, areaSize),
                p, poolId, size, areaSize, vm)

\* alloc: the checks made before the lock is taken: the error they return,
\* or Ok when the call goes on to take the lock
AllocPrecheck(ini, p, size0) ==
  IF ~ini THEN kErrorNotInitialized
  ELSE IF AlignUp(size0, p.granularity) = 0 THEN kErrorInvalidArgument
  ELSE IF AlignUp(size0, p.granularity) > UINT32_MAX \div 2 THEN kErrorTooLarge
  ELSE kErrorOk

\* JitAllocator::alloc(&rx, &rw, size)
AllocOp(ini, p, st, size0, vm) ==
  IF AllocPrecheck(ini, p, size0) # kErrorOk
  THEN [st |-> st, err |-> AllocPrecheck(ini, p, size0), rx |-> 0, rw |-> 0]
  ELSE AllocLocked(p, st, AlignUp(size0, p.granularity), vm)

\* ------------------------------------------------------------------------
\* JitAllocator::release, shrink, query
\* ------------------------------------------------------------------------

\* The result "the process died" of a call that ran into undefined behaviour
kCrash == "Crash"

\* What a read past the end of a bit vector can give: the process dies
\* (oob = -1), or the scan finds a 1 bit in the word that follows the
\* vector, oob bits after its end (0 <= oob < kBitWordSize)
OobOutcomes == {-1} \cup AllOnes

\* The number of bits a block's bit vector holds
BitVectorCapacity(block) ==
  ((block.areaSize + kBitWordSize - 1) \div kBitWordSize) * kBitWordSize

\* The end of an allocation taken as the index of its stop bit, not the
\* index after it
StopScanEnd_NoPlusOne(block, areaIndex, oob) ==
  LET i == BitVectorIndexOf(block.stop, areaIndex) IN
  IF i # -1 THEN i
  ELSE IF oob = -1 THEN -1
  ELSE BitVectorCapacity(block) + oob

\* uint32_t(Support::bitVectorIndexOf(block->_stopBitVector, areaIndex, true)) + 1:
\* -1 when the scan leaves the vector and the process dies
StopScanEnd(block, areaIndex, oob) ==
  LET i == BitVectorIndexOf(block.stop, areaIndex) IN
  IF i # -1 THEN U32Add(i, 1)
  ELSE IF oob = -1 THEN -1
  ELSE U32Add(BitVectorCapacity(block) + oob, 1)

\* TRUE when the stop scan from areaIndex stays inside the bit vector
StopScanInBounds(block, areaIndex) == BitVectorIndexOf(block.stop, areaIndex) # -1

\* (size_t)((uint8_t*)rxPtr - block->rxPtr()) >> pool->granularityLog2
AreaIndexOf(st, b, ptr) ==
  ((ptr - rxPtr(b)) \div st.pools[st.blocks[b].pool].granularity) % (UINT32_MAX + 1)

\* release that does not look at the ImmediateRelease option
ReleaseEmptyBlock_NoImmediateRelease(p, st, b) ==
  IF ~hasFlag(st.blocks[b], kFlagEmpty) THEN st
  ELSE IF st.pools[st.blocks[b].pool].emptyBlockCount # 0
  THEN JitAllocatorImpl_deleteBlock(JitAllocatorImpl_removeBlock(st, b), b)
  ELSE [st EXCEPT !.pools[st.blocks[b].pool].emptyBlockCount = U8Add(@, 1)]

\* release that keeps every block that became empty
ReleaseEmptyBlock_AlwaysKeeps(p, st, b) ==
  IF ~hasFlag(st.blocks[b], kFlagEmpty) THEN st
  ELSE [st EXCEPT !.pools[st.blocks[b].pool].emptyBlockCount = U8Add(@, 1)]

\* release: "Release the whole block if it became empty"
ReleaseEmptyBlock(p, st, b) ==
  LET block == st.blocks[b]
      pool == st.pools[block.pool]
  IN IF ~hasFlag(block, kFlagEmpty) THEN st
     ELSE IF pool.emptyBlockCount # 0 \/ hasOption(p, kImmediateRelease)
     THEN JitAllocatorImpl_deleteBlock(JitAllocatorImpl_removeBlock(st, b), b)
     ELSE [st EXCEPT !.pools[block.pool].emptyBlockCount = U8Add(@, 1)]

\* release: the critical section
ReleaseLocked(p, st, ptr, oob) ==
  LET b == TreeGet(st, ptr)
      block == st.blocks[b]
      areaIndex == AreaIndexOf(st, b, ptr)
      areaEnd == StopScanEnd(block, areaIndex, oob)
      st1 == [st EXCEPT !.allocationCount = SizeSub(@, 1)]
      st2 == markReleasedArea(st1, b, areaIndex, areaEnd)
      st3 == [st2 EXCEPT !.blocks[b] = fillPattern(p, @, areaIndex, areaEnd)]
  IN IF b = 0 THEN [st |-> st, err |-> kErrorInvalidState]
     ELSE IF areaEnd = -1 THEN [st |-> st, err |-> kCrash]
     ELSE [st |-> ReleaseEmptyBlock(p, st3, b), err |-> kErrorOk]

\* The checks of release with the test of the pointer made first
ReleasePrecheck_NullFirst(ini, ptr) ==
  IF ptr = 0 THEN kErrorInvalidArgument
  ELSE IF ~ini THEN kErrorNotInitialized
  ELSE kErrorOk

\* release: the checks made before the lock is taken
ReleasePrecheck(ini, ptr) ==
  IF ~ini THEN kErrorNotInitialized
  ELSE IF ptr = 0 THEN kErrorInvalidArgument
  ELSE kErrorOk

\* LockGuard guard(impl->lock): what a call that constructs one guard does
\* to the mutex
LockGuard == <<"lock", "unlock">>

\* The result r of a critical section, with the operations on impl->lock
\* the whole call made
WithLocks(r, locks) == [st |-> r.st, err |-> r.err, locks |-> locks]

\* JitAllocator::release(rxPtr)
ReleaseOp(ini, p, st, ptr, oob) ==
  IF ReleasePrecheck(ini, ptr) # kErrorOk
  THEN [st |-> st, err |-> ReleasePrecheck(ini, ptr), locks |-> << >>]
  ELSE WithLocks(ReleaseLocked(p, st, ptr, oob), LockGuard)

\* shrink: the critical section (newSize != 0)
ShrinkLocked(p, st, ptr, newSize, oob) ==
  LET b == TreeGet(st, ptr)
      block == st.blocks[b]
      pool == st.pools[block.pool]
      areaStart == AreaIndexOf(st, b, ptr)
      isUsed == BitVectorGetBit(block.used, areaStart)
      areaEnd == StopScanEnd(block, areaStart, oob)
      areaPrevSize == U32Sub(areaEnd, areaStart)
      areaShrunkSize == areaSizeFromByteSize(pool, newSize)
      areaDiff == U32Sub(areaPrevSize, areaShrunkSize)
      shrunkAreaStart == U32Add(areaStart, areaShrunkSize)
      st1 == markShrunkArea(st, b, shrunkAreaStart, areaEnd)
  IN IF b = 0 THEN [st |-> st, err |-> kErrorInvalidArgument]
     ELSE IF ~isUsed THEN [st |-> st, err |-> kErrorInvalidArgument]
     ELSE IF areaEnd = -1 THEN [st |-> st, err |-> kCrash]
     ELSE IF areaShrunkSize > areaPrevSize THEN [st |-> st, err |-> kErrorInvalidState]
     ELSE IF areaDiff # 0
     THEN [st |-> [st1 EXCEPT !.blocks[b] = fillPattern(p, @, shrunkAreaStart, areaEnd)],
           err |-> kErrorOk]
     ELSE [st |-> st, err |-> kErrorOk]

\* shrink: the checks made before shrink takes the lock or calls release
ShrinkPrecheck(ini, ptr) ==
  IF ~ini THEN kErrorNotInitialized
  ELSE IF ptr = 0 THEN kErrorInvalidArgument
  ELSE kErrorOk

\* shrink with the guard constructed before the test of newSize: release
\* then locks the mutex the caller holds
ShrinkOp_LockBeforeRelease(ini, p, st, ptr, newSize, oob) ==
  IF ShrinkPrecheck(ini, ptr) # kErrorOk
  THEN [st |-> st, err |-> ShrinkPrecheck(ini, ptr), locks |-> << >>]
  ELSE IF newSize = 0
  THEN WithLocks(ReleaseOp(ini, p, st, ptr, oob),
                 <<"lock">> \o ReleaseOp(ini, p, st, ptr, oob).locks \o <<"unlock">>)
  ELSE WithLocks(ShrinkLocked(p, st, ptr, newSize, oob), LockGuard)

\* JitAllocator::shrink(rxPtr, newSize)
ShrinkOp(ini, p, st, ptr, newSize, oob) ==
  IF ShrinkPrecheck(ini, ptr) # kErrorOk
  THEN [st |-> st, err |-> ShrinkPrecheck(ini, ptr), locks |-> << >>]
  ELSE IF newSize = 0 THEN ReleaseOp(ini, p, st, ptr, oob)
  ELSE WithLocks(ShrinkLocked(p, st, ptr, newSize, oob), LockGuard)

\* What query writes to its outputs when it fails
QueryFailed(err) == [err |-> err, rx |-> 0, rw |-> 0, size |-> 0]

\* query: the critical section
QueryLocked(st, ptr, oob) ==
  LET b == TreeGet(st, ptr)
      block == st.blocks[b]
      pool == st.pools[block.pool]
      areaStart == AreaIndexOf(st, b, ptr)
      isUsed == BitVectorGetBit(block.used, areaStart)
      areaEnd == StopScanEnd(block, areaStart, oob)
      byteOffset == byteSizeFromAreaSize(pool, areaStart)
      byteSize == byteSizeFromAreaSize(pool, U32Sub(areaEnd, areaStart))
  IN IF b = 0 THEN QueryFailed(kErrorInvalidArgument)
     ELSE IF ~isUsed THEN QueryFailed(kErrorInvalidArgument)
     ELSE IF areaEnd = -1 THEN QueryFailed(kCrash)
     ELSE [err |-> kErrorOk, rx |-> rxPtr(b) + byteOffset,
           rw |-> rwPtr(block, b) + byteOffset, size |-> byteSize]

\* JitAllocator::query(rxPtr, &rxPtrOut, &rwPtrOut, &sizeOut)
QueryOp(ini, st, ptr, oob) ==
  IF ~ini THEN QueryFailed(kErrorNotInitialized)
  ELSE QueryLocked(st, ptr, oob)

\* ------------------------------------------------------------------------
\* JitAllocator::statistics
\* ------------------------------------------------------------------------

\* The sum of a sequence of size_t values
RECURSIVE SizeSum(_)
SizeSum(seq) == IF seq = <<>> THEN 0 ELSE SizeAdd(Head(seq), SizeSum(Tail(seq)))

\* JitAllocator::statistics()
StatisticsOp(ini, st) ==
  LET n == Cardinality(DOMAIN st.pools)
      bc == [i \in 1 .. n |-> st.pools[i - 1].blockCount]
      rs == [i \in 1 .. n |->
               (st.pools[i - 1].totalAreaSize * st.pools[i - 1].granularity) % (SIZE_MAX + 1)]
      us == [i \in 1 .. n |->
               (st.pools[i - 1].totalAreaUsed * st.pools[i - 1].granularity) % (SIZE_MAX + 1)]
      oh == [i \in 1 .. n |-> st.pools[i - 1].totalOverheadBytes]
  IN IF ~ini
     THEN [blockCount |-> 0, reservedSize |-> 0, usedSize |-> 0, overheadSize |-> 0,
           allocationCount |-> 0]
     ELSE [blockCount |-> SizeSum(bc), reservedSize |-> SizeSum(rs),
           usedSize |-> SizeSum(us), overheadSize |-> SizeSum(oh),
           allocationCount |-> st.allocationCount]

\* ------------------------------------------------------------------------
\* JitAllocator::reset
\* ------------------------------------------------------------------------

kHard == "Hard"
kSoft == "Soft"

\* wipeOutBlock that leaves the block as it is
JitAllocatorImpl_wipeOutBlock_KeepsBits(p, block) == block

\* wipeOutBlock: the loop "while (it.nextRange(&rangeStart, &rangeEnd))"
\* that fills the span of every range the iterator yields
RECURSIVE WipeRanges(_, _, _)
WipeRanges(p, block, it) ==
  LET r == BitVectorRangeIterator_nextRange(block.used, it, SIZE_MAX) IN
  IF ~r.ok THEN block
  ELSE WipeRanges(p, fillPattern(p, block, r.rangeStart, r.rangeEnd), r.it)

\* JitAllocatorImpl_wipeOutBlock(impl, block); the iterator is a
\* BitVectorRangeIterator<Support::BitWord, 0> over the whole bit vector
JitAllocatorImpl_wipeOutBlock(p, block) ==
  IF hasFlag(block, kFlagEmpty) THEN block
  ELSE IF hasOption(p, kFillUnusedMemory)
  THEN clearBlock(WipeRanges(p, block,
                    BitVectorRangeIterator_init(block.used, 0, 0,
                                                BitVectorCapacity(block))))
  ELSE clearBlock(block)

\* reset: the while loop that deletes the blocks of a list
RECURSIVE DeleteBlocks(_, _)
DeleteBlocks(st, list) ==
  IF list = <<>> THEN st
  ELSE DeleteBlocks(JitAllocatorImpl_deleteBlock(st, Head(list)), Tail(list))

\* reset: the body of the loop over the pools, for a pool that has blocks
\* or keeps none
ResetPool(p, st, poolId, keep) ==
  LET pool == st.pools[poolId]
      blockToKeep == IF keep THEN Head(pool.blocks) ELSE 0
      st1 == DeleteBlocks(st, IF keep THEN Tail(pool.blocks) ELSE pool.blocks)
      st2 == [st1 EXCEPT !.pools[poolId] = JitAllocatorPool_reset(pool)]
      st3 == [st2 EXCEPT !.blocks[blockToKeep] = JitAllocatorImpl_wipeOutBlock(p, @)]
      st4 == JitAllocatorImpl_insertBlock(st3, blockToKeep)
  IN IF blockToKeep = 0 THEN st2
     ELSE [st4 EXCEPT !.pools[poolId].emptyBlockCount = 1]

\* reset: the loop over the pools from poolId on.  In a pool without a block
\* "block = block->next()" dereferences a null pointer when a block is to
\* be kept: the process dies (ub = "crash") or the read gives null (ub =
\* "null") and nothing is kept.
RECURSIVE ResetPools(_, _, _, _, _)
ResetPools(p, st, poolId, resetPolicy, ub) ==
  LET keep == resetPolicy # kHard /\ ~hasOption(p, kImmediateRelease)
      isEmpty == st.pools[poolId].blocks = <<>>
  IN IF poolId >= poolCountOf(p) THEN [st |-> st, err |-> kErrorOk]
     ELSE IF keep /\ isEmpty /\ ub = "crash" THEN [st |-> st, err |-> kCrash]
     ELSE ResetPools(p, ResetPool(p, st, poolId, keep /\ ~isEmpty), poolId + 1,
                     resetPolicy, ub)

\* JitAllocator::reset(resetPolicy)
ResetOp(ini, p, st, resetPolicy, ub) ==
  IF ~ini THEN [st |-> st, err |-> kErrorOk]
  ELSE ResetPools(p, [st EXCEPT !.tree = {}], 0, resetPolicy, ub)

\* TRUE when reset(resetPolicy) dereferences a null pointer in this state
ResetIsUndefined(ini, p, st, resetPolicy) ==
  /\ ini
  /\ resetPolicy # kHard
  /\ ~hasOption(p, kImmediateRelease)
  /\ \E poolId \in DOMAIN st.pools : st.pools[poolId].blocks = <<>>

\* ------------------------------------------------------------------------
\* The client: the inputs of the calls and the records it keeps
\* ------------------------------------------------------------------------

\* The CreateParams the allocator is constructed with, after the options of
\* test_jit_allocator_alloc_release (testParams): the default, a dual
\* mapping with a granularity of 256 and blocks of twice the page
\* granularity, multiple pools, immediate release, and no initial padding
TestParams ==
  { [options |-> {}, blockSize |-> 0, granularity |-> 0],
    [options |-> {kUseDualMapping}, blockSize |-> 2 * kPageGranularity,
     granularity |-> 256],
    [options |-> {kUseMultiplePools}, blockSize |-> 0, granularity |-> 0],
    [options |-> {kImmediateRelease}, blockSize |-> 0, granularity |-> 0],
    [options |-> {kDisableInitialPadding}, blockSize |-> 0, granularity |-> 0] }

\* The granularity the client sizes its requests by
ClientGranularity == IF initialized THEN params.granularity ELSE kJitAllocatorBaseGranularity

\* The sizes the client asks alloc for: none, less than an area, a little
\* more than one, four areas, just above the limit of alloc, and the
\* largest size_t
AllocSizes ==
  LET g == ClientGranularity IN
  {0, 1, g + 1, 4 * g, (UINT32_MAX \div 2) + 1, SIZE_MAX}

\* The sizes the client asks shrink for (0 releases)
ShrinkSizes ==
  LET g == ClientGranularity IN {0, 1, g + 1, 5 * g}

\* The record the client keeps of a live allocation: the pointers alloc
\* returned and the byte size the allocation has by the contract (the
\* requested size aligned up to the allocator's granularity; after a shrink
\* the new size rounded up to whole areas of the pool)
LiveRecord(rx, rw, size) == [rx |-> rx, rw |-> rw, size |-> size]

\* The pointers the client got from alloc and has not released
LivePointers == {r.rx : r \in live}

\* The bytes [rx, rx + size) of a live record
RangeOf(r) == r.rx .. (r.rx + r.size - 1)

\* The granularity of the pool that owns the block ptr points into
PoolGranularityAt(st, ptr) == st.pools[st.blocks[TreeGet(st, ptr)].pool].granularity

\* size rounded up to a multiple of granularity (no wrap: the arithmetic of
\* the contract, not of the code)
RoundUp(size, granularity) == ((size + granularity - 1) \div granularity) * granularity

\* Non-null pointers that lie inside no block of the tree
OutsidePointers ==
  { ptr \in {RxBase(s) : s \in Slots}
            \cup {rxPtr(b) + blocks[b].blockSize : b \in DOMAIN blocks} :
      \A b \in tree : ptr < rxPtr(b) \/ ptr >= rxPtr(b) + blocks[b].blockSize }

\* The indices of the areas of block b that are not allocated
FreeAreasOf(b) ==
  {i \in 0 .. (blocks[b].areaSize - 1) : ~BitVectorGetBit(blocks[b].used, i)}

\* The pointer to area i of block b
AreaPointer(b, i) == rxPtr(b) + i * pools[blocks[b].pool].granularity

\* The area-aligned pointers to areas that are not allocated, in the blocks
\* of the tree
FreeAreaPointers ==
  UNION { {AreaPointer(b, i) : i \in FreeAreasOf(b)} : b \in tree }

\* One pointer to an area that is not allocated, per block: the first
FirstFreeAreaPointers ==
  { AreaPointer(b, CHOOSE i \in FreeAreasOf(b) : \A j \in FreeAreasOf(b) : i <= j) :
      b \in {x \in tree : FreeAreasOf(x) # {}} }

\* The slot the virtual memory service maps the next block at (the lowest
\* free one; the slots are interchangeable), none when all are taken
FreeSlots ==
  LET free == Slots \ DOMAIN blocks IN
  {s \in free : \A x \in free : s <= x}

\* ------------------------------------------------------------------------
\* The sequential specification: one client, every call runs to its end
\* ------------------------------------------------------------------------

\* The last call: the operation and the error it returned
Call(op, err) == [op |-> op, err |-> err]

NoCall == Call("none", kErrorOk)

\* A call of a client thread, and the result of one that has not run
Request(op, ptr, size) == [op |-> op, ptr |-> ptr, size |-> size, policy |-> "none"]

\* A call of reset(resetPolicy)
ResetRequest(resetPolicy) == [op |-> "reset", ptr |-> 0, size |-> 0, policy |-> resetPolicy]

NoRequest == Request("none", 0, 0)

NoResult == [err |-> kErrorOk]

\* A client thread that is in no call; own: the pointers of its allocations
NoThread == [pc |-> "idle", call |-> NoRequest, r |-> NoResult, expect |-> NoResult,
             own |-> {}]

\* The state after construction: JitAllocator::JitAllocator(params), the
\* sentinel when JitAllocatorImpl_new fails
InitAllocator ==
  \/ /\ initialized = TRUE
     /\ \E cp \in TestParams :
          /\ params = JitAllocatorImpl_new(cp)
          /\ pools = NewPools(JitAllocatorImpl_new(cp))
  \/ /\ initialized = FALSE
     /\ params = [options |-> {}, blockSize |-> 0, granularity |-> 0]
     /\ pools = << >>

\* The allocator holds no block and the client no allocation
InitClient ==
  /\ blocks = << >>
  /\ tree = {}
  /\ allocationCount = 0
  /\ crashed = FALSE
  /\ live = {}
  /\ last = NoCall
  /\ lock = 0
  /\ threads = [t \in 1 .. NumThreads |-> NoThread]
  /\ serial = Impl
  /\ resets = 0

\* No BitVectorRangeIterator is at work outside of alloc and the wipe
NoIteration == [calls |-> 0]

Init == InitAllocator /\ InitClient /\ iteration = NoIteration

\* The state of the call result r becomes the state of the allocator
Commit(r) ==
  /\ pools' = r.st.pools
  /\ blocks' = r.st.blocks
  /\ tree' = r.st.tree
  /\ allocationCount' = r.st.allocationCount
  /\ crashed' = (r.err = kCrash)

\* The client's records after a call of alloc
LiveAfterAlloc(r, size) ==
  IF r.err = kErrorOk
  THEN live \cup {LiveRecord(r.rx, r.rw, RoundUp(size, params.granularity))}
  ELSE live

\* The client's records after a call of release
LiveAfterRelease(r, ptr) ==
  IF r.err = kErrorOk THEN {x \in live : x.rx # ptr} ELSE live

\* The client's records after a call of shrink
LiveAfterShrink(r, ptr, newSize) ==
  IF r.err # kErrorOk THEN live
  ELSE IF newSize = 0 THEN {x \in live : x.rx # ptr}
  ELSE {IF x.rx = ptr
        THEN [x EXCEPT !.size = RoundUp(newSize, PoolGranularityAt(r.st, ptr))]
        ELSE x : x \in live}

\* JitAllocatorWrapper::_insert: the client fills the size bytes of the
\* allocation alloc returned in r with a pattern of its own, so the areas
\* that hold these bytes hold the fill pattern no more
ClientWrites(r, size) ==
  IF r.err # kErrorOk THEN r
  ELSE LET b == TreeGet(r.st, r.rx)
           areaIndex == AreaIndexOf(r.st, b, r.rx)
           count == RoundUp(size, PoolGranularityAt(r.st, r.rx))
                      \div PoolGranularityAt(r.st, r.rx)
       IN [r EXCEPT !.st.blocks[b].filled = @ \ (areaIndex .. (areaIndex + count - 1))]

\* alloc(size); vm is what the virtual memory service would answer
Alloc(size, vm) ==
  /\ ~crashed
  /\ Cardinality(live) < MaxLive
  /\ \E r \in {ClientWrites(AllocOp(initialized, params, Impl, size, vm), size)} :
       /\ Commit(r)
       /\ live' = LiveAfterAlloc(r, size)
       /\ last' = Call("alloc", r.err)
  /\ UNCHANGED <<iteration, initialized, params, lock, threads, serial,
                 resets>>

\* release(ptr) of a live allocation, of null, or of a pointer inside no block
Release(ptr) ==
  /\ ~crashed
  /\ \E r \in {ReleaseOp(initialized, params, Impl, ptr, -1)} :
       /\ Commit(r)
       /\ live' = LiveAfterRelease(r, ptr)
       /\ last' = Call("release", r.err)
  /\ UNCHANGED <<iteration, initialized, params, lock, threads, serial,
                 resets>>

\* shrink(ptr, newSize)
Shrink(ptr, newSize) ==
  /\ ~crashed
  /\ \E r \in {ShrinkOp(initialized, params, Impl, ptr, newSize, -1)} :
       /\ Commit(r)
       /\ live' = LiveAfterShrink(r, ptr, newSize)
       /\ last' = Call("shrink", r.err)
  /\ UNCHANGED <<iteration, initialized, params, lock, threads, serial,
                 resets>>

\* query(ptr)
Query(ptr) ==
  /\ ~crashed
  /\ \E r \in {QueryOp(initialized, Impl, ptr, -1)} :
       /\ crashed' = (r.err = kCrash)
       /\ last' = Call("query", r.err)
  /\ UNCHANGED <<iteration, initialized, params, pools, blocks, tree, allocationCount, live,
                 lock, threads, serial,
                 resets>>

\* statistics()
Statistics ==
  /\ ~crashed
  /\ last' = Call("statistics", kErrorOk)
  /\ UNCHANGED <<iteration, initialized, params, pools, blocks, tree, allocationCount, crashed,
                 live, lock, threads, serial,
                 resets>>

\* The calls of a client that keeps to the contract: release and shrink of
\* its live pointers; and the calls the allocator has to reject
AllocCall == \E size \in AllocSizes : \E vm \in {0} \cup FreeSlots : Alloc(size, vm)
ReleaseCall == \E ptr \in LivePointers \cup {0} \cup OutsidePointers : Release(ptr)
ShrinkCall ==
  \/ \E ptr \in LivePointers : \E newSize \in ShrinkSizes : Shrink(ptr, newSize)
  \/ \E ptr \in {0} \cup OutsidePointers \cup FirstFreeAreaPointers :
       Shrink(ptr, ClientGranularity)
QueryCall ==
  \E ptr \in LivePointers \cup {0} \cup OutsidePointers \cup FirstFreeAreaPointers : Query(ptr)
StatisticsCall == Statistics

Next == AllocCall \/ ReleaseCall \/ ShrinkCall \/ QueryCall \/ StatisticsCall

Spec == Init /\ [][Next]_vars

\* ------------------------------------------------------------------------
\* The sequential specification with reset: the client also calls
\* reset(resetPolicy), at most MaxResets times in a run (reset leaves
\* impl->allocationCount as it is, so the counter grows with every round
\* of allocations that a reset discards).  reset discards the client's
\* records.  The client keeps to the contract: it releases and shrinks its
\* live pointers only.
\* ------------------------------------------------------------------------

\* reset(resetPolicy); ub is what the read through a null block gives
Reset(resetPolicy, ub) ==
  /\ ~crashed
  /\ resets < MaxResets
  /\ resets' = resets + 1
  /\ \E r \in {ResetOp(initialized, params, Impl, resetPolicy, ub)} :
       /\ Commit(r)
       /\ last' = Call("reset", r.err)
  /\ live' = {}
  /\ UNCHANGED <<iteration, initialized, params, lock, threads, serial>>

ResetCall == \E resetPolicy \in {kHard, kSoft} : \E ub \in {"crash", "null"} : Reset(resetPolicy, ub)

ReleaseLive == \E ptr \in LivePointers : Release(ptr)
ShrinkLive == \E ptr \in LivePointers : \E newSize \in ShrinkSizes : Shrink(ptr, newSize)

NextReset == AllocCall \/ ReleaseLive \/ ShrinkLive \/ ResetCall

\* The CreateParams "kFillUnusedMemory" of testParams
FillParams == [options |-> {kFillUnusedMemory}, blockSize |-> 0, granularity |-> 0]

\* The allocators of Init and the one that fills its unused memory
InitReset ==
  /\ \/ InitAllocator
     \/ /\ initialized = TRUE
        /\ params = JitAllocatorImpl_new(FillParams)
        /\ pools = NewPools(JitAllocatorImpl_new(FillParams))
  /\ InitClient
  /\ iteration = NoIteration

SpecReset == InitReset /\ [][NextReset]_vars

\* ------------------------------------------------------------------------
\* Concurrent clients: NumThreads threads call into one allocator.  A call
\* is issued, waits for impl->lock, and runs its critical section in three
\* steps: it reads the state and computes, it stores allocationCount, it
\* stores the rest and leaves; between the last two the call is half
\* applied.
\* What a call does before it locks reads its arguments and fields that
\* never change (_impl, granularity).  A thread releases, shrinks and
\* queries the allocations it made itself.
\* ------------------------------------------------------------------------

Threads == 1 .. NumThreads

\* The positions of a thread inside a critical section
CriticalPcs == {"locked", "computed", "writing"}

\* statistics without its LockGuard
TakesLock_NotStatistics(op) == op \in {"alloc", "release", "shrink", "query"}

\* The operations that construct LockGuard guard(impl->lock); reset does not
TakesLock(op) == op \in {"alloc", "release", "shrink", "query", "statistics"}

\* Lock::lock() returns when no thread holds the mutex
LockIsFree == lock = 0

\* The slot the virtual memory service maps the next block of st at, 0 when
\* all are taken
LowestFreeSlot(st) ==
  LET free == Slots \ DOMAIN st.blocks IN
  IF free = {} THEN 0 ELSE CHOOSE s \in free : \A x \in free : s <= x

\* What the call returns when it runs on the allocator state st
RunCall(call, st) ==
  CASE call.op = "alloc" ->
         AllocOp(initialized, params, st, call.size, LowestFreeSlot(st))
    [] call.op = "release" -> ReleaseOp(initialized, params, st, call.ptr, -1)
    [] call.op = "shrink" -> ShrinkOp(initialized, params, st, call.ptr, call.size, -1)
    [] call.op = "query" -> QueryOp(initialized, st, call.ptr, -1)
    [] OTHER -> StatisticsOp(initialized, st)

\* The allocator state the call leaves when it returned r on st
StateAfter(call, r, st) ==
  IF call.op \in {"alloc", "release", "shrink"} THEN r.st ELSE st

\* The error the call returned
ErrorOf(call, r) == IF call.op = "statistics" THEN kErrorOk ELSE r.err

\* The client's records after the call returned r
LiveAfterCall(call, r) ==
  CASE call.op = "alloc" -> LiveAfterAlloc(r, call.size)
    [] call.op = "release" -> LiveAfterRelease(r, call.ptr)
    [] call.op = "shrink" -> LiveAfterShrink(r, call.ptr, call.size)
    [] OTHER -> live

\* The pointers a thread owns after its call returned r
OwnAfterCall(own, call, r) ==
  IF ErrorOf(call, r) # kErrorOk THEN own
  ELSE IF call.op = "alloc" THEN own \cup {r.rx}
  ELSE IF call.op = "release" \/ (call.op = "shrink" /\ call.size = 0)
  THEN own \ {call.ptr}
  ELSE own

\* The sizes the threads ask alloc and shrink for
ThreadAllocSizes == {1, ClientGranularity + 1}
ThreadShrinkSizes == {0, 1}

\* The allocations that are live or being made
PendingAllocs == {t \in Threads : threads[t].call.op = "alloc"}

\* The calls thread t may issue
ThreadCalls(t) ==
  {Request("alloc", 0, size) :
     size \in IF Cardinality(live) + Cardinality(PendingAllocs) < MaxLive
              THEN ThreadAllocSizes ELSE {}}
  \cup {Request("release", ptr, 0) : ptr \in threads[t].own}
  \cup {Request("shrink", ptr, size) : ptr \in threads[t].own, size \in ThreadShrinkSizes}
  \cup {Request("query", ptr, 0) : ptr \in threads[t].own}
  \cup {Request("statistics", 0, 0)}

\* Thread t calls into the allocator
Begin(t, call) ==
  /\ ~crashed
  /\ threads[t].pc = "idle"
  /\ threads' = [threads EXCEPT ![t].pc = "waiting", ![t].call = call]
  /\ UNCHANGED <<iteration, initialized, params, pools, blocks, tree, allocationCount, crashed,
                 live, last, lock, serial,
                 resets>>

\* LockGuard guard(impl->lock) returns: thread t is in its critical section.
\* The sequential execution runs the call now.
Acquire(t) ==
  /\ ~crashed
  /\ threads[t].pc = "waiting"
  /\ TakesLock(threads[t].call.op) => LockIsFree
  /\ lock' = IF TakesLock(threads[t].call.op) THEN t ELSE lock
  /\ \E e \in {RunCall(threads[t].call, serial)} :
       /\ threads' = [threads EXCEPT ![t].pc = "locked", ![t].expect = e]
       /\ serial' = StateAfter(threads[t].call, e, serial)
  /\ UNCHANGED <<iteration, initialized, params, pools, blocks, tree, allocationCount, crashed,
                 live, last,
                 resets>>

\* TRUE when the tree holds a block that was deleted (a reset that raced
\* with a critical section can leave one)
Dangling(st) == ~(st.tree \subseteq DOMAIN st.blocks)

\* Thread t reads the allocator and computes its result; the process dies
\* when the tree leads it to a deleted block
Read(t) ==
  /\ ~crashed
  /\ threads[t].pc = "locked"
  /\ crashed' = Dangling(Impl)
  /\ threads' = [threads EXCEPT
                   ![t].pc = "computed",
                   ![t].r = IF Dangling(Impl) THEN NoResult
                            ELSE RunCall(threads[t].call, Impl)]
  /\ UNCHANGED <<iteration, initialized, params, pools, blocks, tree, allocationCount,
                 live, last, lock, serial,
                 resets>>

\* Thread t stores impl->allocationCount
WriteCount(t) ==
  /\ ~crashed
  /\ threads[t].pc = "computed"
  /\ allocationCount' = StateAfter(threads[t].call, threads[t].r, Impl).allocationCount
  /\ threads' = [threads EXCEPT ![t].pc = "writing"]
  /\ UNCHANGED <<iteration, initialized, params, pools, blocks, tree, crashed, live, last, lock,
                 serial,
                 resets>>

\* Thread t stores the rest, the guard unlocks, and the call returns
Leave(t) ==
  /\ ~crashed
  /\ threads[t].pc = "writing"
  /\ LET call == threads[t].call
         r == threads[t].r
     IN /\ \E st \in {StateAfter(call, r, Impl)} :
             /\ pools' = st.pools
             /\ blocks' = st.blocks
             /\ tree' = st.tree
        /\ crashed' = (ErrorOf(call, r) = kCrash)
        /\ live' = LiveAfterCall(call, r)
        /\ last' = Call(call.op, ErrorOf(call, r))
        /\ lock' = IF TakesLock(call.op) THEN 0 ELSE lock
        /\ threads' = [threads EXCEPT
                         ![t] = [NoThread EXCEPT !.own = OwnAfterCall(threads[t].own, call, r)]]
  /\ UNCHANGED <<iteration, initialized, params, allocationCount, serial,
                 resets>>

BeginCall == \E t \in Threads : \E call \in ThreadCalls(t) : Begin(t, call)
AcquireStep == \E t \in Threads : Acquire(t)
ReadStep == \E t \in Threads : Read(t)
WriteCountStep == \E t \in Threads : WriteCount(t)
LeaveStep == \E t \in Threads : Leave(t)

NextThreads == BeginCall \/ AcquireStep \/ ReadStep \/ WriteCountStep \/ LeaveStep

\* The allocators the threads share: the default and the dual mapped one
InitThreads == Init /\ initialized /\ params.options \in {{}, {kUseDualMapping}}

SpecThreads == InitThreads /\ [][NextThreads]_vars

\* ------------------------------------------------------------------------
\* Concurrent clients that also call reset.  reset constructs no LockGuard:
\* it clears the tree, then walks the pools.  A thread calls it when no call
\* that names a pointer is in flight: reset makes all pointers invalid.  A
\* step of reset taken while another thread is inside a critical section or
\* inside reset is a data race: the process may die of it.
\* ------------------------------------------------------------------------

ResetPolicies == {kHard, kSoft}

\* TRUE when a step of thread t races with another thread
Racing(t) ==
  \E u \in Threads \ {t} : threads[u].pc \in CriticalPcs \cup {"reset"}

\* The outcomes of a step of reset that ends with err
RaceOutcomes(t, err) == {err = kCrash} \cup (IF Racing(t) THEN {TRUE} ELSE {})

\* reset(resetPolicy), to after impl->tree.reset()
ResetBegin(t, resetPolicy) ==
  /\ ~crashed
  /\ threads[t].pc = "idle"
  /\ resets < MaxResets
  /\ resets' = resets + 1
  /\ \A u \in Threads : threads[u].call.ptr = 0
  /\ tree' = {}
  /\ crashed' \in RaceOutcomes(t, kErrorOk)
  /\ live' = {}
  /\ threads' = [u \in Threads |->
                   IF u = t
                   THEN [NoThread EXCEPT !.pc = "reset", !.call = ResetRequest(resetPolicy)]
                   ELSE [threads[u] EXCEPT !.own = {}]]
  /\ UNCHANGED <<iteration, initialized, params, pools, blocks, allocationCount, last, lock, serial>>

\* reset: the loop over the pools, and the return.  The sequential
\* execution continues from the blocks reset left.
ResetEnd(t, ub) ==
  /\ ~crashed
  /\ threads[t].pc = "reset"
  /\ \E r \in {ResetPools(params, Impl, 0, threads[t].call.policy, ub)} :
       /\ pools' = r.st.pools
       /\ blocks' = r.st.blocks
       /\ tree' = r.st.tree
       /\ allocationCount' = r.st.allocationCount
       /\ serial' = [r.st EXCEPT !.tree = @ \cap DOMAIN r.st.blocks]
       /\ crashed' \in RaceOutcomes(t, r.err)
       /\ last' = Call("reset", r.err)
  /\ live' = {}
  /\ threads' = [u \in Threads |->
                   IF u = t THEN NoThread ELSE [threads[u] EXCEPT !.own = {}]]
  /\ UNCHANGED <<iteration, initialized, params, lock,
                 resets>>

ResetBeginStep == \E t \in Threads : \E resetPolicy \in ResetPolicies : ResetBegin(t, resetPolicy)
ResetEndStep == \E t \in Threads : \E ub \in {"crash", "null"} : ResetEnd(t, ub)

\* The calls thread t may issue besides reset: each operation, one size
ThreadCallsBesideReset(t) ==
  {call \in ThreadCalls(t) : call.size \in {0, 1} /\ (call.op = "shrink" => call.size = 1)}

BeginCallBesideReset ==
  \E t \in Threads : \E call \in ThreadCallsBesideReset(t) : Begin(t, call)

NextThreadsReset ==
  \/ BeginCallBesideReset
  \/ AcquireStep
  \/ ReadStep
  \/ WriteCountStep
  \/ LeaveStep
  \/ ResetBeginStep
  \/ ResetEndStep

\* The allocator the resetting threads share: the default one
InitThreadsReset == Init /\ initialized /\ params.options = {}

SpecThreadsReset == InitThreadsReset /\ [][NextThreadsReset]_vars

\* ------------------------------------------------------------------------
\* Properties of the sequential specification
\* ------------------------------------------------------------------------

\* The slot of the block a pointer the allocator returned points into
SlotOf(ptr) == ptr \div SlotBytes

\* The indices of the areas the live record r occupies in its block
LiveAreas(r) ==
  LET b == SlotOf(r.rx) IN
  IF b \notin DOMAIN blocks THEN {}
  ELSE LET g == pools[blocks[b].pool].granularity
           first == (r.rx - rxPtr(b)) \div g
       IN first .. (first + (r.size \div g) - 1)

\* [rx, rx + size) of two records are disjoint
Disjoint(r1, r2) == r1.rx + r1.size <= r2.rx \/ r2.rx + r2.size <= r1.rx

\* What query has to return for an allocation at rx, rw of size bytes
QueryOk(rx, rw, size) == [err |-> kErrorOk, rx |-> rx, rw |-> rw, size |-> size]

\* rx and rw lie at the same byte offset of the two mappings of their block
SameOffset(st, rx, rw) ==
  LET b == TreeGet(st, rx) IN
  /\ b # 0
  /\ rx - RxBase(b) = rw - RwBase(b, hasFlag(st.blocks[b], kFlagDualMapped))

\* C1: after any sequence of successful alloc, release and shrink calls made
\* with valid arguments, any two distinct live allocations occupy disjoint
\* ranges [rx, rx + size), and the areas of a live allocation are marked
\* used in its block, so that no area is given to a second allocation.
C1_LiveAllocationsDisjoint ==
  /\ \A r1 \in live : \A r2 \in live : r1 # r2 => Disjoint(r1, r2)
  /\ \A r \in live :
       /\ SlotOf(r.rx) \in tree
       /\ LiveAreas(r) # {}
       /\ \A i \in LiveAreas(r) : BitVectorGetBit(blocks[SlotOf(r.rx)].used, i)

\* Two live allocations lie in one block, the second one just allocated
C1_Witness ==
  /\ last = Call("alloc", kErrorOk)
  /\ \E r1 \in live : \E r2 \in live : r1 # r2 /\ SlotOf(r1.rx) = SlotOf(r2.rx)

\* C2: a successful alloc(n), 0 < n <= UINT32_MAX / 2, returning (rx, rw) is
\* followed by query(rx) returning (rx, rw, n rounded up to the allocator's
\* granularity), right after the call and for as long as the allocation is
\* live (after a shrink: with the size shrink left); rx and rw lie at the
\* same byte offset of their block.
C2_QueryReturnsTheAllocation ==
  /\ \A size \in AllocSizes : \A vm \in {0} \cup FreeSlots :
       LET a == AllocOp(initialized, params, Impl, size, vm) IN
       a.err = kErrorOk =>
         /\ QueryOp(initialized, a.st, a.rx, -1)
              = QueryOk(a.rx, a.rw, RoundUp(size, params.granularity))
         /\ SameOffset(a.st, a.rx, a.rw)
  /\ \A r \in live :
       /\ QueryOp(initialized, Impl, r.rx, -1) = QueryOk(r.rx, r.rw, r.size)
       /\ SameOffset(Impl, r.rx, r.rw)

\* query succeeded on a live allocation of a dual mapped block
C2_Witness ==
  /\ last = Call("query", kErrorOk)
  /\ \E r \in live : r.rw # r.rx /\ r.size = 4 * params.granularity

\* C3: release(rx) with rx in a block of the tree, in an area that is not
\* allocated, fails with InvalidState and leaves the allocator unchanged.
C3_ReleaseOfFreeAreaFails ==
  \A ptr \in FreeAreaPointers : \A oob \in OobOutcomes :
    LET r == ReleaseOp(initialized, params, Impl, ptr, oob) IN
    r.err = kErrorInvalidState /\ r.st = Impl

\* C4 as stated, for an allocator that has a block: release, query and
\* shrink (newSize > 0) of a non-null pointer that lies inside no block all
\* fail with InvalidState and change nothing.
C4_OutsidePointerIsInvalidState ==
  initialized /\ tree # {} =>
    \A ptr \in OutsidePointers :
      /\ ReleaseOp(initialized, params, Impl, ptr, -1).err = kErrorInvalidState
      /\ ReleaseOp(initialized, params, Impl, ptr, -1).st = Impl
      /\ QueryOp(initialized, Impl, ptr, -1).err = kErrorInvalidState
      /\ \A newSize \in ShrinkSizes \ {0} :
           /\ ShrinkOp(initialized, params, Impl, ptr, newSize, -1).err = kErrorInvalidState
           /\ ShrinkOp(initialized, params, Impl, ptr, newSize, -1).st = Impl

\* C4, amended: with a non-null pointer that lies inside no block, release
\* fails with InvalidState, query and shrink (newSize > 0) fail with
\* InvalidArgument; none of them changes anything (query zeroes its outputs).
C4_OutsidePointerIsRejected ==
  initialized =>
    \A ptr \in OutsidePointers :
      /\ ReleaseOp(initialized, params, Impl, ptr, -1).err = kErrorInvalidState
      /\ ReleaseOp(initialized, params, Impl, ptr, -1).st = Impl
      /\ QueryOp(initialized, Impl, ptr, -1) = QueryFailed(kErrorInvalidArgument)
      /\ \A newSize \in ShrinkSizes \ {0} :
           /\ ShrinkOp(initialized, params, Impl, ptr, newSize, -1).err = kErrorInvalidArgument
           /\ ShrinkOp(initialized, params, Impl, ptr, newSize, -1).st = Impl

\* release was called with a pointer outside the blocks of the tree (no
\* other pointer makes it fail with InvalidState) while a block is there
C4_Witness ==
  /\ last = Call("release", kErrorInvalidState)
  /\ tree # {}
  /\ \E ptr \in OutsidePointers :
       /\ QueryOp(initialized, Impl, ptr, -1).err = kErrorInvalidArgument
       /\ ShrinkOp(initialized, params, Impl, ptr, 1, -1).err = kErrorInvalidArgument

\* The number of areas of its pool that size bytes take, by the contract
AreasFor(size, granularity) == (size + granularity - 1) \div granularity

\* C5: a successful shrink(rx, m) of a live allocation, 0 < m and m not more
\* areas than the allocation has, keeps the allocation's start, makes
\* query(rx).size the size of ceil(m / pool granularity) areas, frees exactly
\* the tail areas (not used any more, inside the block's search window, the
\* block marked dirty for the next scan), and leaves allocationCount and
\* every other live allocation unchanged.
C5_ShrinkKeepsThePrefix ==
  \A r \in live : \A m \in ShrinkSizes \ {0} :
    LET b == TreeGet(Impl, r.rx)
        g == PoolGranularityAt(Impl, r.rx)
        first == AreaIndexOf(Impl, b, r.rx)
        n == QueryOp(initialized, Impl, r.rx, -1).size \div g
        k == AreasFor(m, g)
        s == ShrinkOp(initialized, params, Impl, r.rx, m, -1)
        after == s.st.blocks[b]
    IN k <= n =>
         /\ s.err = kErrorOk
         /\ QueryOp(initialized, s.st, r.rx, -1) = QueryOk(r.rx, r.rw, k * g)
         /\ \A i \in first .. (first + k - 1) : BitVectorGetBit(after.used, i)
         /\ \A i \in (first + k) .. (first + n - 1) :
              /\ ~BitVectorGetBit(after.used, i)
              /\ after.searchStart <= i /\ i < after.searchEnd
              /\ hasFlag(after, kFlagDirty)
         /\ after.areaUsed = blocks[b].areaUsed - (n - k)
         /\ after.used \cup ((first + k) .. (first + n - 1)) = blocks[b].used
         /\ s.st.allocationCount = allocationCount
         /\ \A x \in live \ {r} :
              QueryOp(initialized, s.st, x.rx, -1) = QueryOp(initialized, Impl, x.rx, -1)

\* shrink succeeded and left two live allocations, one of them followed by
\* an area that is not allocated
C5_Witness ==
  /\ last = Call("shrink", kErrorOk)
  /\ Cardinality(live) = 2
  /\ \E r \in live :
       /\ r.size < 4 * params.granularity
       /\ r.rx + r.size \in FreeAreaPointers

\* TRUE when a call locks impl->lock while it holds it
Relocks(locks) ==
  \E i \in 1 .. Len(locks) : \E j \in (i + 1) .. Len(locks) :
    /\ locks[i] = "lock" /\ locks[j] = "lock"
    /\ \A k \in (i + 1) .. (j - 1) : locks[k] # "unlock"

\* C6: shrink(rx, 0) is release(rx): in every state and for every rx (live,
\* null, outside the blocks, in an area that is not allocated) it returns
\* the same result and leaves the same state, and it does not lock the mutex
\* while it holds it.
C6_ShrinkToZeroIsRelease ==
  \A ptr \in LivePointers \cup {0} \cup OutsidePointers \cup FreeAreaPointers :
    \A oob \in OobOutcomes :
      LET s == ShrinkOp(initialized, params, Impl, ptr, 0, oob)
          r == ReleaseOp(initialized, params, Impl, ptr, oob)
      IN s = r /\ ~Relocks(s.locks)

\* shrink(rx, 0) released the only live allocation: the block stays, empty
C6_Witness ==
  /\ last = Call("shrink", kErrorOk)
  /\ live = {}
  /\ allocationCount = 0
  /\ \E b \in tree : hasFlag(blocks[b], kFlagEmpty)

\* The sizes of size_t above the limit of alloc
OversizedSizes == {n \in 0 .. SIZE_MAX : n > UINT32_MAX \div 2}

\* C7: for every size of size_t greater than UINT32_MAX / 2, alloc fails
\* with TooLarge, creates no block and changes no state.
C7_OversizedAllocIsTooLarge ==
  initialized =>
    \A size \in OversizedSizes : \A vm \in {0} \cup FreeSlots :
      LET a == AllocOp(initialized, params, Impl, size, vm) IN
      a.err = kErrorTooLarge /\ a.st = Impl

\* C8 as stated: whenever alloc, release, shrink or query returns an error
\* the allocator state after the call is identical to the state before it,
\* the search hints and flags of the blocks included.
C8_ErrorLeavesStateIdentical ==
  [][last'.err # kErrorOk => Impl' = Impl]_vars

\* The allocator state without what alloc caches about a block while it
\* scans it: searchStart, searchEnd, largestUnusedArea and the dirty flag
WithoutHints(st) ==
  [st EXCEPT !.blocks =
     [b \in DOMAIN st.blocks |->
        [st.blocks[b] EXCEPT !.searchStart = 0, !.searchEnd = 0,
                             !.largestUnusedArea = 0, !.flags = @ \ {kFlagDirty}]]]

\* C8, amended: whenever alloc, release, shrink or query returns an error the
\* allocator state is the state before the call, except that an alloc that
\* fails with OutOfMemory may have refreshed the search hints (searchStart,
\* searchEnd, largestUnusedArea) and cleared the dirty flag of blocks it
\* scanned; the block set, bit vectors, pools and counters are the same.
C8_ErrorLeavesAllocationsIdentical ==
  [][last'.err # kErrorOk =>
       /\ WithoutHints(Impl') = WithoutHints(Impl)
       /\ last' # Call("alloc", kErrorOutOfMemory) => Impl' = Impl]_vars

\* alloc failed with OutOfMemory after it scanned a block that has room in
\* pieces only: the block is not dirty and its hints are the scan's
C8_Witness ==
  /\ last = Call("alloc", kErrorOutOfMemory)
  /\ \E b \in tree :
       /\ ~hasFlag(blocks[b], kFlagDirty)
       /\ ~hasFlag(blocks[b], kFlagEmpty)
       /\ blocks[b].largestUnusedArea < areaAvailable(blocks[b])

\* ------------------------------------------------------------------------
\* Properties of the concurrent specifications
\* ------------------------------------------------------------------------

\* C9: all six operations hold the mutex, reset too, so no step of reset
\* interleaves with the critical section of a concurrent alloc, release,
\* shrink, query or statistics.
C9_ResetExcludesCriticalSections ==
  \A t \in Threads : \A u \in Threads :
    threads[t].pc = "reset" => threads[u].pc \notin CriticalPcs

\* C9, the part of it that holds: alloc, release, shrink, query and
\* statistics hold the mutex for their whole access to mutable state, so no
\* two of their critical sections overlap; reset never holds it.
C9_FiveOperationsHoldTheMutex ==
  /\ \A t \in Threads : threads[t].pc \in CriticalPcs => lock = t
  /\ \A t \in Threads : \A u \in Threads \ {t} :
       ~(threads[t].pc \in CriticalPcs /\ threads[u].pc \in CriticalPcs)
  /\ \A t \in Threads : threads[t].pc = "reset" => lock # t

\* A thread is between the two steps of reset while another one holds the
\* mutex, in the middle of an alloc
C9_Witness ==
  \E t \in Threads : \E u \in Threads :
    /\ threads[t].pc = "reset"
    /\ threads[u].pc = "writing" /\ threads[u].call.op = "alloc"
    /\ lock = u

\* C10: under every interleaving of alloc, release, shrink, query and
\* statistics calls of several threads, each call returns what it returns in
\* the sequential execution of the calls in the order they acquired the
\* mutex, the state when no call is in a critical section is the state of
\* that execution, and the live allocations are disjoint.
C10_Linearizable ==
  /\ \A t \in Threads :
       threads[t].pc \in {"computed", "writing"} => threads[t].r = threads[t].expect
  /\ (\A t \in Threads : threads[t].pc \notin CriticalPcs) => Impl = serial
  /\ \A r1 \in live : \A r2 \in live : r1 # r2 => Disjoint(r1, r2)

\* statistics has computed its result while the other thread, which owns a
\* live allocation as this one does, waits for the mutex with an alloc
C10_Witness ==
  \E t \in Threads : \E u \in Threads \ {t} :
    /\ threads[t].pc = "computed" /\ threads[t].call.op = "statistics"
    /\ threads[t].r.allocationCount = 2
    /\ threads[t].own # {} /\ threads[u].own # {}
    /\ threads[u].pc = "waiting"

\* ------------------------------------------------------------------------
\* Properties of the sequential specification with reset
\* ------------------------------------------------------------------------

\* The blocks in the list of a pool
BlocksOfPool(st, poolId) ==
  {st.pools[poolId].blocks[i] : i \in 1 .. Len(st.pools[poolId].blocks)}

\* TRUE when the live record x is the only allocation of its block, so
\* that its release makes the block empty
IsLastOfItsBlock(x) ==
  LET b == SlotOf(x.rx) IN
  blocks[b].areaUsed - (x.size \div PoolGranularityAt(Impl, x.rx))
    = initialAreaStart(blocks[b])

\* C11: when a release makes a block Empty, the block is removed from its
\* pool and freed if and only if the pool holds another empty block at that
\* moment or ImmediateRelease is set; otherwise it stays in the pool as its
\* single empty reserve.  In every reachable state, after a reset too.
C11_EmptiedBlockIsFreedIffAnotherIsEmpty ==
  \A x \in live :
    LET b == SlotOf(x.rx)
        poolId == blocks[b].pool
        after == ReleaseOp(initialized, params, Impl, x.rx, -1).st
        others == {o \in BlocksOfPool(Impl, poolId) \ {b} : hasFlag(blocks[o], kFlagEmpty)}
    IN IsLastOfItsBlock(x) =>
         IF others # {} \/ hasOption(params, kImmediateRelease)
         THEN /\ b \notin DOMAIN after.blocks
              /\ b \notin after.tree
              /\ b \notin BlocksOfPool(after, poolId)
         ELSE /\ b \in after.tree
              /\ b \in BlocksOfPool(after, poolId)
              /\ hasFlag(after.blocks[b], kFlagEmpty)
              /\ after.pools[poolId].emptyBlockCount = 1

\* The live records of the allocations in block b
LiveIn(b) == {x \in live : SlotOf(x.rx) = b}

\* C12: in every reachable state each pool has emptyBlockCount in {0, 1}
\* (the 8-bit counter neither underflows nor exceeds 1) and at most one
\* block of the pool carries no live allocation (states of a process that
\* died in reset aside).
C12_AtMostOneEmptyBlock ==
  ~crashed => \A poolId \in DOMAIN pools :
    /\ pools[poolId].emptyBlockCount \in {0, 1}
    /\ Cardinality({b \in BlocksOfPool(Impl, poolId) : LiveIn(b) = {}}) <= 1
    /\ Cardinality({b \in BlocksOfPool(Impl, poolId) : hasFlag(blocks[b], kFlagEmpty)}) <= 1

\* A release emptied one of the two blocks of a pool: the pool keeps it as
\* its reserve next to a block that holds an allocation
C12_Witness ==
  /\ last = Call("release", kErrorOk)
  /\ \E poolId \in DOMAIN pools :
       /\ pools[poolId].emptyBlockCount = 1
       /\ Cardinality(BlocksOfPool(Impl, poolId)) = 2
       /\ \E b \in BlocksOfPool(Impl, poolId) : LiveIn(b) = {}

\* C13: with ImmediateRelease set, after every completed operation every
\* block of every pool holds at least one live allocation; so whenever no
\* allocation is live statistics().blockCount is 0.
C13_ImmediateReleaseKeepsNoEmptyBlock ==
  hasOption(params, kImmediateRelease) /\ ~crashed =>
    /\ \A b \in DOMAIN blocks : LiveIn(b) # {}
    /\ \A poolId \in DOMAIN pools : \A b \in BlocksOfPool(Impl, poolId) :
         b \in DOMAIN blocks /\ ~hasFlag(blocks[b], kFlagEmpty)
    /\ live = {} => StatisticsOp(initialized, Impl).blockCount = 0

\* With ImmediateRelease the only allocation was released: no block is left
C13_Witness ==
  /\ hasOption(params, kImmediateRelease)
  /\ last = Call("release", kErrorOk)
  /\ live = {}
  /\ blocks = << >>
  /\ StatisticsOp(initialized, Impl).blockCount = 0

\* The sum of the byte sizes of a set of live records
RECURSIVE SumOfSizes(_)
SumOfSizes(records) ==
  IF records = {} THEN 0
  ELSE LET x == CHOOSE r \in records : TRUE
       IN x.size + SumOfSizes(records \ {x})

\* The default configuration: no option, granularity 64, initial padding
IsDefaultConfiguration ==
  initialized /\ params.options = {} /\ params.granularity = kJitAllocatorBaseGranularity

\* C14: under the default configuration, after every completed operation
\* statistics().usedSize is the sum of the granularity-rounded byte sizes
\* of the live allocations (64 after one alloc(8), 0 when all are released).
C14_UsedSizeIsLiveBytes ==
  IsDefaultConfiguration /\ ~crashed =>
    StatisticsOp(initialized, Impl).usedSize = SumOfSizes(live)

\* C14, amended: under the default configuration statistics().usedSize is
\* the sum of the rounded byte sizes of the live allocations plus one
\* granularity (the padding area) for every block that exists: 128 after
\* one alloc(8), 64 while the empty block is kept, 0 without a block.
C14_UsedSizeCountsThePadding ==
  IsDefaultConfiguration /\ ~crashed =>
    StatisticsOp(initialized, Impl).usedSize
      = SumOfSizes(live) + params.granularity * Cardinality(DOMAIN blocks)

\* One allocation of one area is live in the only block and usedSize is
\* 128: the state after alloc(1) on a new allocator
C14_Witness ==
  /\ IsDefaultConfiguration
  /\ last = Call("alloc", kErrorOk)
  /\ \E x \in live : live = {x} /\ x.size = 64
  /\ Cardinality(DOMAIN blocks) = 1
  /\ StatisticsOp(initialized, Impl).usedSize = 128

\* Pointers into the live record x: its start, the next byte, the start of
\* its second area and its last byte
PointersInto(x) ==
  {x.rx, x.rx + 1, x.rx + PoolGranularityAt(Impl, x.rx), x.rx + x.size - 1}
    \cap (x.rx .. (x.rx + x.size - 1))

\* C15: query(ptr) for a pointer anywhere inside a live allocation, in its
\* second or a later area too, returns the start of the allocation, the
\* matching rw and the full byte size of the allocation.
C15_QueryOfInteriorPointer ==
  \A x \in live : \A ptr \in PointersInto(x) :
    QueryOp(initialized, Impl, ptr, -1) = QueryOk(x.rx, x.rw, x.size)

\* The bits of a block that holds its padding area only
PaddingBits(block) == {i \in {0} : hasFlag(block, kFlagInitialPadding)}

\* TRUE when block is empty: only the padding area (if any) is occupied
\* and the hints cover the whole block
IsClearBlock(block) ==
  /\ hasFlag(block, kFlagEmpty) /\ ~hasFlag(block, kFlagDirty)
  /\ block.used = PaddingBits(block) /\ block.stop = PaddingBits(block)
  /\ block.areaUsed = initialAreaStart(block)
  /\ block.searchStart = initialAreaStart(block)
  /\ block.searchEnd = block.areaSize
  /\ block.largestUnusedArea = block.areaSize - initialAreaStart(block)

\* What C16 states of the allocator "after" a reset(resetPolicy) of "before"
ResetPost(before, after, resetPolicy) ==
  IF resetPolicy = kHard \/ hasOption(params, kImmediateRelease)
  THEN /\ after.blocks = << >>
       /\ after.tree = {}
       /\ \A poolId \in DOMAIN after.pools :
            after.pools[poolId].blocks = <<>> /\ after.pools[poolId].blockCount = 0
  ELSE /\ \A poolId \in DOMAIN before.pools :
            before.pools[poolId].blocks # <<>> =>
              /\ after.pools[poolId].blocks = <<Head(before.pools[poolId].blocks)>>
              /\ after.pools[poolId].blockCount = 1
              /\ after.pools[poolId].emptyBlockCount = 1
              /\ IsClearBlock(after.blocks[Head(before.pools[poolId].blocks)])
       /\ after.tree = UNION {BlocksOfPool(after, poolId) : poolId \in DOMAIN after.pools}
       /\ DOMAIN after.blocks = after.tree

\* C16: after reset(Soft) without ImmediateRelease every pool that held a
\* block holds exactly its former list head, Empty, with only the padding
\* area occupied and its hints reset, blockCount = 1, emptyBlockCount = 1,
\* and the tree holds exactly the retained blocks; after reset(Hard), or
\* any reset with ImmediateRelease, no block is left in a pool or the tree.
\* Stated of every reset that returns, in every reachable state.
C16_ResetKeepsTheListHeads ==
  initialized /\ ~crashed =>
    \A resetPolicy \in {kHard, kSoft} : \A ub \in {"crash", "null"} :
      \A r \in {ResetOp(initialized, params, Impl, resetPolicy, ub)} :
        r.err = kErrorOk => ResetPost(Impl, r.st, resetPolicy)

\* reset(Soft) has returned and kept a block; two allocations were live
\* when it was called
C16_Witness ==
  /\ last = Call("reset", kErrorOk)
  /\ ~crashed
  /\ allocationCount = 2
  /\ \E poolId \in DOMAIN pools :
       /\ pools[poolId].blockCount = 1
       /\ pools[poolId].emptyBlockCount = 1
       /\ \A b \in BlocksOfPool(Impl, poolId) : IsClearBlock(blocks[b])

\* The areas of a block
AreasOf(block) == 0 .. (block.areaSize - 1)

\* C17: with FillUnusedMemory set, after a reset(Soft) that returns, every
\* area of every block the allocator retained holds the fill pattern: the
\* wipe has overwritten the areas the allocations occupied
C17_WipeLeavesTheFillPattern ==
  initialized /\ ~crashed /\ hasOption(params, kFillUnusedMemory) =>
    \A ub \in {"crash", "null"} :
      \A r \in {ResetOp(initialized, params, Impl, kSoft, ub)} :
        r.err = kErrorOk =>
          \A b \in DOMAIN r.st.blocks :
            AreasOf(r.st.blocks[b]) \subseteq r.st.blocks[b].filled

\* ------------------------------------------------------------------------
\* Properties of the sentinel
\* ------------------------------------------------------------------------

\* The state of the allocator whose _impl is JitAllocatorImpl_none
SentinelImpl == [pools |-> << >>, blocks |-> << >>, tree |-> {}, allocationCount |-> 0]

\* Null and pointers a client may hold
AnyPointers == {0} \cup {RxBase(slot) + d : slot \in Slots, d \in {0, 1, 64}}

\* Statistics::reset()
NoStatistics == [blockCount |-> 0, reservedSize |-> 0, usedSize |-> 0,
                 overheadSize |-> 0, allocationCount |-> 0]

\* C18: on the sentinel alloc, release, shrink and query return
\* NotInitialized for every argument (null pointers and sizes of 0 and
\* above the limit included), reset does nothing, statistics is all zero,
\* and the state of the sentinel is the one it was constructed with
C18_SentinelIsNotInitialized ==
  ~initialized =>
    /\ Impl = SentinelImpl
    /\ \A size \in 0 .. SIZE_MAX : \A vm \in {0} \cup Slots :
         AllocOp(initialized, params, Impl, size, vm)
           = [st |-> Impl, err |-> kErrorNotInitialized, rx |-> 0, rw |-> 0]
    /\ \A ptr \in AnyPointers : \A oob \in OobOutcomes :
         /\ ReleaseOp(initialized, params, Impl, ptr, oob)
              = [st |-> Impl, err |-> kErrorNotInitialized, locks |-> << >>]
         /\ \A newSize \in {0, 1, 64, SIZE_MAX} :
              ShrinkOp(initialized, params, Impl, ptr, newSize, oob)
                = [st |-> Impl, err |-> kErrorNotInitialized, locks |-> << >>]
         /\ QueryOp(initialized, Impl, ptr, oob) = QueryFailed(kErrorNotInitialized)
    /\ \A resetPolicy \in {kHard, kSoft} : \A ub \in {"crash", "null"} :
         ResetOp(initialized, params, Impl, resetPolicy, ub)
           = [st |-> Impl, err |-> kErrorOk]
    /\ StatisticsOp(initialized, Impl) = NoStatistics

\* release was called on the sentinel after another call
C18_Witness ==
  /\ ~initialized
  /\ last = Call("release", kErrorNotInitialized)
  /\ Impl = SentinelImpl

\* ------------------------------------------------------------------------
\* Properties of the bit vectors
\* ------------------------------------------------------------------------

\* TRUE when the used area i of block is followed by a sentinel: a stop
\* bit at some j >= i with every area from i to j used
HasSentinel(block, i) ==
  \E j \in block.stop : j >= i /\ (i .. j) \subseteq block.used

\* C19: in every block, after any sequence of alloc, release, shrink and
\* reset calls, every used area is followed by a sentinel and every stop
\* bit lies on a used area
C19_UsedAreasEndInASentinel ==
  \A b \in DOMAIN blocks :
    /\ \A i \in blocks[b].used : HasSentinel(blocks[b], i)
    /\ blocks[b].stop \subseteq blocks[b].used

\* A shrink has returned, a block holds an allocation of more than one
\* area, and an area of the block that was released is free
C19_Witness ==
  /\ last = Call("shrink", kErrorOk)
  /\ \E b \in DOMAIN blocks :
       /\ \E i \in blocks[b].used : i \notin blocks[b].stop
       /\ \E i \in AreasOf(blocks[b]) \ blocks[b].used : \E j \in blocks[b].used : i < j

\* TRUE when i .. j is a maximal run of 1 bits in bits
IsMaximalRun(bits, i, j) ==
  /\ i <= j
  /\ (i .. j) \subseteq bits
  /\ (i - 1) \notin bits
  /\ (j + 1) \notin bits

\* The last area of the live allocation x
LastAreaOf(x) == CHOOSE i \in LiveAreas(x) : \A k \in LiveAreas(x) : k <= i

\* C20 as the specification states it: in every block each maximal run of
\* used areas has a stop bit at its last area and none strictly inside
C20_StopOnlyAtTheEndOfARun ==
  ~crashed =>
    \A b \in DOMAIN blocks :
      \A i, j \in AreasOf(blocks[b]) :
        IsMaximalRun(blocks[b].used, i, j) =>
          /\ j \in blocks[b].stop
          /\ \A k \in (i + 1) .. (j - 1) : k \notin blocks[b].stop

\* C20: in every block each maximal run of used areas has a stop bit at
\* its last area, and the stop bits of the block are those of the last
\* areas of the live allocations and of the padding area: a run holds one
\* stop bit for each allocation in it
C20_StopBitsEndTheAllocations ==
  ~crashed =>
    \A b \in DOMAIN blocks :
      /\ \A i, j \in AreasOf(blocks[b]) :
           IsMaximalRun(blocks[b].used, i, j) => j \in blocks[b].stop
      /\ blocks[b].stop
           = PaddingBits(blocks[b]) \cup {LastAreaOf(x) : x \in LiveIn(b)}

\* Two live allocations that are next to each other in a block, the second
\* of more than one area
C20_Witness ==
  /\ ~crashed
  /\ \E x, y \in live :
       /\ SlotOf(x.rx) = SlotOf(y.rx)
       /\ x.rx + x.size = y.rx
       /\ Cardinality(LiveAreas(y)) > 1

\* ------------------------------------------------------------------------
\* Properties of the counters, flags and hints of a block
\* ------------------------------------------------------------------------

\* C21: in every block areaUsed is the number of 1 bits of used, it does
\* not exceed areaSize, and areaUsed + areaAvailable() is areaSize
C21_AreaUsedCountsTheUsedBits ==
  \A b \in DOMAIN blocks :
    /\ blocks[b].areaUsed = Cardinality(blocks[b].used)
    /\ blocks[b].areaUsed <= blocks[b].areaSize
    /\ blocks[b].areaUsed + areaAvailable(blocks[b]) = blocks[b].areaSize

\* A shrink has returned and left a block that is neither empty nor full,
\* with two allocations
C21_Witness ==
  /\ last = Call("shrink", kErrorOk)
  /\ \E b \in DOMAIN blocks :
       /\ Cardinality(LiveIn(b)) = 2
       /\ blocks[b].areaUsed > initialAreaStart(blocks[b]) + 1
       /\ areaAvailable(blocks[b]) > 0

\* The blocks that are in a pool's list
BlocksInPools == UNION {BlocksOfPool(Impl, poolId) : poolId \in DOMAIN pools}

\* C22: a block that is in a pool has the Empty flag exactly when its
\* areaUsed is its initialAreaStart (nothing but the padding is occupied)
C22_EmptyFlagIffOnlyPadding ==
  \A b \in BlocksInPools :
    hasFlag(blocks[b], kFlagEmpty) <=> blocks[b].areaUsed = initialAreaStart(blocks[b])

\* A release has returned and left an empty block in a pool next to a
\* block that holds an allocation
C22_Witness ==
  /\ last = Call("release", kErrorOk)
  /\ \E b1, b2 \in BlocksInPools :
       /\ hasFlag(blocks[b1], kFlagEmpty)
       /\ blocks[b1].areaUsed = initialAreaStart(blocks[b1])
       /\ ~hasFlag(blocks[b2], kFlagEmpty)
       /\ blocks[b2].areaUsed > initialAreaStart(blocks[b2])

\* The areas of block that are not used
FreeAreas(block) == AreasOf(block) \ block.used

\* The length of the longest run of free areas of block (0 when it is full)
LongestFreeRun(block) ==
  LET runs == {n \in 1 .. block.areaSize : \E i \in AreasOf(block) :
               IsMaximalRun(FreeAreas(block), i, i + n - 1)}
  IN IF runs = {} THEN 0 ELSE CHOOSE n \in runs : \A m \in runs : m <= n

\* C23: in every block whose Dirty flag is clear, largestUnusedArea is the
\* length of the longest run of free areas, and every run of that length
\* lies inside [searchStart, searchEnd)
C23_CleanHintsAreExact ==
  \A b \in DOMAIN blocks :
    ~hasFlag(blocks[b], kFlagDirty) =>
      /\ blocks[b].largestUnusedArea = LongestFreeRun(blocks[b])
      /\ \A i, j \in AreasOf(blocks[b]) :
           /\ IsMaximalRun(FreeAreas(blocks[b]), i, j)
           /\ j - i + 1 = LongestFreeRun(blocks[b])
           => blocks[b].searchStart <= i /\ j < blocks[b].searchEnd

\* An alloc has returned after its scan of a block found no fitting range
\* and wrote the hints back: the block is neither empty nor full, its
\* Dirty flag is clear and its free areas are in two runs
C23_Witness ==
  /\ last = Call("alloc", kErrorOk)
  /\ \E b \in DOMAIN blocks :
       /\ ~hasFlag(blocks[b], kFlagDirty)
       /\ ~hasFlag(blocks[b], kFlagEmpty)
       /\ areaAvailable(blocks[b]) > LongestFreeRun(blocks[b])
       /\ blocks[b].largestUnusedArea = LongestFreeRun(blocks[b])

\* ------------------------------------------------------------------------
\* Properties of the block search of alloc
\* ------------------------------------------------------------------------

\* The sizes of one to four areas of the finest pool
AreaSizes == {n * ClientGranularity : n \in 1 .. 4}

\* TRUE when block has a run of at least areaSize contiguous free areas
HasFreeRun(block, areaSize) ==
  \E i \in AreasOf(block) : (i .. (i + areaSize - 1)) \subseteq FreeAreas(block)

\* TRUE when alloc(size) goes for a new block in the current state: with
\* the virtual memory service refusing (vm = 0) it then is out of memory
NeedsNewBlock(size) ==
  AllocOp(initialized, params, Impl, size, 0).err = kErrorOutOfMemory

\* C24: alloc(size) goes for a new block only when no block of the pool
\* the size selects has a run of free areas that fits, and every free area
\* of every block lies inside the block's [searchStart, searchEnd)
C24_NewBlockOnlyWhenNothingFits ==
  initialized /\ ~crashed =>
    /\ \A b \in DOMAIN blocks :
         \A i \in FreeAreas(blocks[b]) :
           blocks[b].searchStart <= i /\ i < blocks[b].searchEnd
    /\ \A size \in AreaSizes :
         NeedsNewBlock(size) =>
           LET poolId == JitAllocatorImpl_sizeToPoolId(params, size)
               areaSize == areaSizeFromByteSize(pools[poolId], size)
           IN \A b \in BlocksOfPool(Impl, poolId) : ~HasFreeRun(blocks[b], areaSize)

\* alloc has added a second block to a pool whose first block has free
\* areas in two runs, none of them of two areas
C24_Witness ==
  /\ last = Call("alloc", kErrorOk)
  /\ \E poolId \in DOMAIN pools :
       /\ Len(pools[poolId].blocks) = 2
       /\ areaAvailable(blocks[pools[poolId].blocks[1]]) >= 2
       /\ ~HasFreeRun(blocks[pools[poolId].blocks[1]], 2)

\* The blocks of pool in the order of a search that starts at the cursor
\* and wraps around the list
FromCursor(pool) ==
  LET k == IndexIn(pool.blocks, pool.cursor) IN
  IF k = 0 THEN pool.blocks
  ELSE SubSeq(pool.blocks, k, Len(pool.blocks)) \o SubSeq(pool.blocks, 1, k - 1)

\* The first block of the sequence order that has a run of areaSize free
\* areas (0: none has)
FirstFit(order, areaSize) ==
  LET fits == {i \in 1 .. Len(order) : HasFreeRun(blocks[order[i]], areaSize)}
  IN IF fits = {} THEN 0 ELSE order[CHOOSE i \in fits : \A j \in fits : i <= j]

PoolParams ==
  {[options |-> o, blockSize |-> kPageGranularity, granularity |-> g] :
     o \in {{}, {kUseMultiplePools}}, g \in {64, 128, 256}}

\* The sizes alloc passes on: the non-zero multiples of granularity up to
\* UINT32_MAX / 2
AlignedSizes(granularity) ==
  {n * granularity : n \in 1 .. ((UINT32_MAX \div 2) \div granularity)}

\* The largest pool id below poolCount whose granularity divides size
LargestDividingPool(p, size) ==
  LET ids == {poolId \in 0 .. (poolCountOf(p) - 1) :
                size % (p.granularity * (2 ^ poolId)) = 0}
  IN CHOOSE poolId \in ids : \A other \in ids : other <= poolId

\* C26: for every granularity, one pool or three, and every non-zero
\* multiple of the granularity, sizeToPoolId gives the largest pool whose
\* granularity divides the size (pool 0 with one pool); and a block that
\* holds an allocation is of the pool its size selects: with g = 64 and
\* three pools 64 bytes are in pool 0 and 256 bytes in pool 2
C26_LargestPoolThatDivides ==
  /\ \A p \in PoolParams : \A size \in AlignedSizes(p.granularity) :
       /\ JitAllocatorImpl_sizeToPoolId(p, size) = LargestDividingPool(p, size)
       /\ poolCountOf(p) = 1 => JitAllocatorImpl_sizeToPoolId(p, size) = 0
  /\ initialized /\ ~crashed =>
       \A size \in AreaSizes : \A vm \in FreeSlots :
         \A r \in {AllocOp(initialized, params, Impl, size, vm)} :
           r.err = kErrorOk =>
             r.st.blocks[SlotOf(r.rx)].pool = LargestDividingPool(params, size)

\* With three pools of granularity 64, 128 and 256 the client holds an
\* allocation of 64 bytes in a block of pool 0 and one of 256 bytes in a
\* block of pool 2
C26_Witness ==
  /\ last = Call("alloc", kErrorOk)
  /\ hasOption(params, kUseMultiplePools) /\ params.granularity = 64
  /\ \E x, y \in live :
       /\ x.size = 64 /\ blocks[SlotOf(x.rx)].pool = 0
       /\ y.size = 256 /\ blocks[SlotOf(y.rx)].pool = 2

\* The sequential specification with large requests: the client asks for
\* allocations of up to several blocks' size, so that alloc creates blocks
\* of the size the request needs, and releases them
LargeSizes == {64, 256, 512, 1024}

AllocLarge == \E size \in LargeSizes : \E vm \in FreeSlots : Alloc(size, vm)

NextLarge == AllocLarge \/ ReleaseLive

SpecLarge == Init /\ [][NextLarge]_vars

\* The size of the last block of the pool poolId
LastBlockSize(poolId) == blocks[pools[poolId].blocks[Len(pools[poolId].blocks)]].blockSize

\* The size C27 gives for the block alloc(size) creates in pool poolId
StatedBlockSize(poolId, size) ==
  LET next == Min(kJitAllocatorMaxBlockSize, 2 * LastBlockSize(poolId))
      request == IF hasOption(params, kDisableInitialPadding) THEN size
                 ELSE size + kPaddingBytes
  IN IF request > next THEN AlignUp(request, params.blockSize) ELSE next

\* The requests alloc accepts: the multiples of the granularity up to
\* UINT32_MAX / 2, taken one in four
AcceptedSizes == {size \in AlignedSizes(ClientGranularity) : size % 256 = 0}

\* C27: the size of the block alloc creates in a pool that has blocks is
\* the smaller of kJitAllocatorMaxBlockSize and twice the size of the
\* pool's last block, or the padded request aligned up to impl->blockSize
\* when that is larger; and every block created has a size from the least
\* to the largest CreateParams::blockSize (64 KiB to 256 MiB)
C27_BlockSizeDoublesUpToTheMaximum ==
  initialized /\ ~crashed =>
    /\ \A b \in DOMAIN blocks :
         kMinParamBlockSize <= blocks[b].blockSize /\ blocks[b].blockSize <= kMaxParamBlockSize
    /\ \A size \in AcceptedSizes :
         \A poolId \in {JitAllocatorImpl_sizeToPoolId(params, size)} :
           \A blockSize \in {JitAllocatorImpl_calculateIdealBlockSize(Impl, params, poolId, size)} :
             blockSize # 0 =>
               /\ kMinParamBlockSize <= blockSize /\ blockSize <= kMaxParamBlockSize
               /\ pools[poolId].blocks # << >> => blockSize = StatedBlockSize(poolId, size)

\* ------------------------------------------------------------------------
\* Properties of the padding area and of the memory
\* ------------------------------------------------------------------------

\* C28: in every block that has the InitialPadding flag, bit 0 of used and
\* of stop is 1 after every alloc, release, shrink and reset, and no
\* allocation starts at the block's base address: none the client holds,
\* and none alloc would return next
C28_PaddingAreaIsNeverAllocated ==
  initialized /\ ~crashed =>
    /\ \A b \in DOMAIN blocks :
         hasFlag(blocks[b], kFlagInitialPadding) =>
           /\ 0 \in blocks[b].used /\ 0 \in blocks[b].stop
           /\ \A x \in LiveIn(b) : x.rx # rxPtr(b)
    /\ \A size \in AreaSizes : \A vm \in FreeSlots :
         \A r \in {AllocOp(initialized, params, Impl, size, vm)} :
           r.err = kErrorOk /\ hasFlag(r.st.blocks[SlotOf(r.rx)], kFlagInitialPadding) =>
             r.rx # rxPtr(SlotOf(r.rx))

\* After a reset, alloc has placed an allocation at area 1 of a block that
\* has the padding area
C28_Witness ==
  /\ last = Call("alloc", kErrorOk)
  /\ resets = 1
  /\ \E x \in live :
       /\ hasFlag(blocks[SlotOf(x.rx)], kFlagInitialPadding)
       /\ x.rx = rxPtr(SlotOf(x.rx)) + PoolGranularityAt(Impl, x.rx)

\* ------------------------------------------------------------------------
\* The BitVectorRangeIterator on its own: an iterator is constructed over a
\* bit array and a window, and nextRange is called on it without a hint.
\* No allocator is involved: _impl stays the sentinel
\* ------------------------------------------------------------------------

\* The bit arrays of MaxWords bit words
BitArrays == SUBSET (0 .. MaxWords * kBitWordSize - 1)

\* BitVectorRangeIterator<T, B> it(data, numBitWords, start, end): init
\* asserts that the window ends within the bit array
InitIterator ==
  /\ initialized = FALSE
  /\ params = [options |-> {}, blockSize |-> 0, granularity |-> 0]
  /\ pools = << >>
  /\ InitClient
  /\ \E bits \in BitArrays, B \in {0, 1} :
       \E end \in 0 .. MaxWords * kBitWordSize :
         \E start \in 0 .. end :
           iteration = [calls |-> 0, bits |-> bits, B |-> B, start |-> start,
                        end |-> end,
                        it |-> BitVectorRangeIterator_init(bits, B, start, end),
                        ranges |-> << >>, done |-> FALSE, again |-> FALSE]

\* it.nextRange(&rangeStart, &rangeEnd): ranges are the ranges of the calls
\* that returned true, done is set by a call that returned false and again by
\* a call that returned true after one that returned false
NextRangeCall ==
  /\ iteration # NoIteration
  /\ iteration.calls < MaxCalls
  /\ LET r == BitVectorRangeIterator_nextRange(iteration.bits, iteration.it, SIZE_MAX) IN
     iteration' = [iteration EXCEPT
                     !.calls = @ + 1,
                     !.it = r.it,
                     !.ranges = IF r.ok THEN Append(@, <<r.rangeStart, r.rangeEnd>>)
                                ELSE @,
                     !.done = @ \/ ~r.ok,
                     !.again = @ \/ (iteration.done /\ r.ok)]
  /\ UNCHANGED <<initialized, params, pools, blocks, tree, allocationCount,
                 crashed, live, last, lock, threads, serial, resets>>

SpecIterator == InitIterator /\ [][NextRangeCall]_vars

\* The interesting bit positions of the window of the iteration: the bits
\* that are B within [start, end)
InterestingBits ==
  {i \in 0 .. MaxWords * kBitWordSize - 1 :
     /\ iteration.start <= i /\ i < iteration.end
     /\ (i \in iteration.bits) = (iteration.B = 1)}

\* The bit positions of the ranges the iteration has yielded
YieldedBits ==
  UNION {iteration.ranges[k][1] .. iteration.ranges[k][2] - 1 :
           k \in DOMAIN iteration.ranges}

\* Every yielded range is a half-open sub-range [rangeStart, rangeEnd) of
\* the window
RangesAreSubRanges ==
  \A k \in DOMAIN iteration.ranges :
    /\ iteration.start <= iteration.ranges[k][1]
    /\ iteration.ranges[k][1] < iteration.ranges[k][2]
    /\ iteration.ranges[k][2] <= iteration.end

\* The yielded ranges ascend and do not overlap
RangesAscend ==
  \A k \in DOMAIN iteration.ranges :
    k > 1 => iteration.ranges[k - 1][2] <= iteration.ranges[k][1]

\* C29 (part): the yielded ranges ascend without overlap, after the call
\* that returned false their union is the set of the interesting bits of
\* the window, and no call returns true after a call that returned false.
C29_RangesCoverTheInterestingBits ==
  iteration # NoIteration =>
    /\ RangesAscend
    /\ YieldedBits \subseteq InterestingBits
    /\ iteration.done => YieldedBits = InterestingBits
    /\ ~iteration.again

\* C29: for every bit array, window and variant the ranges yielded by the
\* calls of nextRange without a hint are half-open sub-ranges of the window,
\* ascend, do not overlap, their union is the set of the interesting bits of
\* the window, and after a call that returned false every call returns false.
C29_RangesOfTheWindow ==
  iteration # NoIteration =>
    /\ RangesAreSubRanges
    /\ C29_RangesCoverTheInterestingBits

\* an iteration over a window that ends inside a bit word has returned false
\* twice after it yielded a range
C29_Witness ==
  /\ iteration # NoIteration
  /\ iteration.end % kBitWordSize # 0
  /\ iteration.ranges # << >>
  /\ iteration.done
  /\ iteration.calls >= Len(iteration.ranges) + 2

\* The areas of the block b that belong to no live allocation
UnusedAreas(b) == AreasOf(blocks[b]) \ UNION {LiveAreas(x) : x \in LiveIn(b)}

\* C30: with FillUnusedMemory set and the client writing inside its live
\* allocations only, after the calls of alloc, release and shrink every area
\* of every block that belongs to no live allocation holds the fill pattern.
C30_UnusedAreasHoldTheFillPattern ==
  (~crashed /\ hasOption(params, kFillUnusedMemory) /\ resets = 0) =>
    \A b \in DOMAIN blocks : UnusedAreas(b) \subseteq blocks[b].filled

\* a shrink has freed the tail of an allocation which the client had written
\* to, next to an allocation that stays live
C30_Witness ==
  /\ ~crashed /\ hasOption(params, kFillUnusedMemory) /\ resets = 0
  /\ last = Call("shrink", kErrorOk)
  /\ \E b \in DOMAIN blocks :
       /\ Cardinality(LiveIn(b)) = 2
       /\ \E x \in LiveIn(b) :
            \E i \in UnusedAreas(b) : i - 1 \in LiveAreas(x)

\* The blocks that can be reached from the tree, from a pool list or from a
\* cursor
ReachableBlocks ==
  (tree \cup BlocksInPools \cup {pools[poolId].cursor : poolId \in DOMAIN pools}) \ {0}

\* C31: after every completed operation the blocks of the tree are the
\* blocks of the pool lists, the cursor of a pool is null exactly when the
\* pool has no block and otherwise is a block of that pool, and no block that
\* was destroyed can be reached from the tree, a pool list or a cursor.
C31_TreeListsAndCursorsAgree ==
  initialized /\ ~crashed =>
    /\ tree = BlocksInPools
    /\ \A poolId \in DOMAIN pools :
         /\ (pools[poolId].cursor = 0) = (pools[poolId].blocks = <<>>)
         /\ pools[poolId].blocks # <<>> =>
              pools[poolId].cursor \in BlocksOfPool(Impl, poolId)
         /\ \A b \in BlocksOfPool(Impl, poolId) :
              b \in DOMAIN blocks /\ blocks[b].pool = poolId
    /\ ReachableBlocks \subseteq DOMAIN blocks

\* a release has removed and destroyed a block of a pool that keeps one
\* block, the cursor: the block at the first address is gone and the one at
\* the second address is left
C31_Witness ==
  /\ initialized /\ ~crashed
  /\ last = Call("release", kErrorOk)
  /\ DOMAIN blocks = {2}
  /\ \E poolId \in DOMAIN pools :
       pools[poolId].blocks = <<2>> /\ pools[poolId].cursor = 2

\* TRUE when some pool of the allocator has no block
SomePoolIsEmpty == \E poolId \in DOMAIN pools : pools[poolId].blocks = <<>>

\* C32: reset(Soft) of an allocator without ImmediateRelease of which some
\* pool has no block completes: it reads through no absent block, it
\* returns, and it leaves that pool without a block.
C32_SoftResetOfAnEmptyPoolIsSafe ==
  (initialized /\ ~crashed /\ ~hasOption(params, kImmediateRelease) /\ SomePoolIsEmpty) =>
    /\ ~ResetIsUndefined(initialized, params, Impl, kSoft)
    /\ \A ub \in {"crash", "null"} :
         \A r \in {ResetOp(initialized, params, Impl, kSoft, ub)} :
           /\ r.err = kErrorOk
           /\ \A poolId \in DOMAIN pools :
                pools[poolId].blocks = <<>> => r.st.pools[poolId].blocks = <<>>

\* C33: after every completed operation statistics().allocationCount is the
\* number of the live allocations, those alloc returned that were neither
\* released nor discarded by a reset; it is 0 after a reset.
C33_AllocationCountIsTheLiveCount ==
  initialized /\ ~crashed =>
    /\ StatisticsOp(initialized, Impl).allocationCount = Cardinality(live)
    /\ last = Call("reset", kErrorOk) =>
         StatisticsOp(initialized, Impl).allocationCount = 0

\* C33 (part): without a reset allocationCount is the number of the live
\* allocations, so that no release decrements a counter that is 0.
C33_AllocationCountWithoutReset ==
  initialized /\ ~crashed /\ resets = 0 =>
    StatisticsOp(initialized, Impl).allocationCount = Cardinality(live)

\* The sum of the field of the blocks of a list of blocks
RECURSIVE SumOverBlocks(_, _)
SumOverBlocks(list, field) ==
  IF list = <<>> THEN 0
  ELSE blocks[Head(list)][field] + SumOverBlocks(Tail(list), field)

\* C34: after every completed operation, for every pool, blockCount is the
\* number of the blocks of the pool's list, totalAreaSize the sum of their
\* areaSize and totalAreaUsed the sum of their areaUsed; statistics()
\* reports usedSize <= reservedSize.
C34_PoolCountersAreTheSums ==
  initialized /\ ~crashed =>
    /\ \A poolId \in DOMAIN pools :
         /\ pools[poolId].blockCount = Len(pools[poolId].blocks)
         /\ pools[poolId].totalAreaSize = SumOverBlocks(pools[poolId].blocks, "areaSize")
         /\ pools[poolId].totalAreaUsed = SumOverBlocks(pools[poolId].blocks, "areaUsed")
    /\ StatisticsOp(initialized, Impl).usedSize <= StatisticsOp(initialized, Impl).reservedSize

\* a pool holds two blocks after a shrink: the totals are sums of two terms
\* and the shrink has taken areas off totalAreaUsed
C34_Witness ==
  /\ initialized /\ ~crashed
  /\ last = Call("shrink", kErrorOk)
  /\ \E poolId \in DOMAIN pools :
       /\ Len(pools[poolId].blocks) = 2
       /\ pools[poolId].totalAreaUsed > 2
       /\ \E x \in live : x.size < 4 * pools[poolId].granularity

\* The sizes asked of alloc: of a few areas, and of a block's size and more
RequestSizes == AreaSizes \cup LargeSizes

\* offset <= block->blockSize() - size, for the allocation at rx of the
\* aligned size in the allocator st
InsideItsBlock(st, rx, size) ==
  LET b == SlotOf(rx) IN
  /\ b \in DOMAIN st.blocks
  /\ rx >= rxPtr(b)
  /\ (rx - rxPtr(b)) + size <= st.blocks[b].blockSize

\* C35: every successful alloc places the allocation inside its block: the
\* byte offset it returns plus the aligned size is at most the block's size,
\* in a block that existed and in a block alloc has created, for every
\* configuration; the allocations that are live lie inside their blocks.
C35_AllocationsLieInsideTheirBlocks ==
  initialized /\ ~crashed =>
    /\ \A x \in live : InsideItsBlock(Impl, x.rx, x.size)
    /\ \A size \in RequestSizes : \A vm \in FreeSlots :
         \A r \in {AllocOp(initialized, params, Impl, size, vm)} :
           r.err = kErrorOk =>
             InsideItsBlock(r.st, r.rx, AlignUp(size, params.granularity))

\* alloc has placed a second allocation in a block that existed, up to the
\* end of the block: the block is full
C35_Witness ==
  /\ initialized /\ ~crashed
  /\ last = Call("alloc", kErrorOk)
  /\ \E b \in DOMAIN blocks :
       /\ Cardinality(LiveIn(b)) = 2
       /\ \E x \in LiveIn(b) : (x.rx - rxPtr(b)) + x.size = blocks[b].blockSize

=============================================================================
